---- MODULE Spec2Model ----
(***************************************************************************)
(* Simple touch capture of move_debugger.py (class TouchEventRecorder):    *)
(* the capture loop listen_touch_events, the per-touch state machine       *)
(* process_touch_event / reset_touch_state and the tap/swipe classifier    *)
(* generate_touch_command.                                                 *)
(*                                                                         *)
(* Encodings.  Python's None is the number -1: every optional field of the *)
(* program holds a non-negative number when it is set (raw coordinates are *)
(* parsed from unsigned hexadecimal, timestamps are time.time()).  Time is *)
(* counted in ticks, TicksPerMs ticks to the millisecond.  A command       *)
(* string is a record [prefix, fields]: the text is prefix followed by the *)
(* fields joined by commas.  The float 'distance' of a record is kept as   *)
(* its exact square distance2.                                             *)
(***************************************************************************)
EXTENDS Integers, Sequences, FiniteSets, TLC

VARIABLES
    current_touch,      \* listen_touch_events: the dict current_touch
    recorded_commands,  \* TouchEventRecorder.recorded_commands
    event,              \* listen_touch_events: event_data, the event last processed
    pc,                 \* where the program is: "capture", "stopped", "call", "returned",
                        \* "scene", "record", "menu", "confirm", "loop", "done",
                        \* "readline", "handled", "parse", "parsed",
                        \* "discover", "listed", "scanned", "failed",
                        \* "keys", "pressed", "system", "initialized", "got",
                        \* "advanced", "dedicated", "unified", "ran"
    first_signal_time,  \* history: timestamp of the first start signal since the last reset
    touch_device,       \* the touch device in use: its declared axis maxima
    unified_timeline,   \* TouchEventRecorder.unified_timeline
    todo,               \* test_generated_commands: the replays still to run
    replay_i,           \* the replay loops: i of enumerate(..., 1)
    last_time,          \* test_dedicated_sequence: last_time
    executed_count,     \* test_dedicated_sequence: executed_count
    replay_log,         \* what replay did, in order: actuation calls, sleeps, prints
    line,               \* listen_touch_events: the line last read from getevent
    event_data,         \* what parse_event_line returned for it: <<>> is None
    dump,               \* get_available_touch_devices: the output of "getevent -p"
    devices,            \* get_available_touch_devices: the list it returned
    call_args,          \* the arguments of the function under call
    adb_log,            \* the adb commands run and the sleeps made, in order
    system,             \* the SystemComponents container
    active_touches,     \* TouchEventRecorder.active_touches, in insertion order
    operation_sequence, \* TouchEventRecorder.operation_sequence
    dedicated_touch,    \* listen_dedicated_touch_events: is_touching, last_sample_time,
                        \* current_raw_x, current_raw_y
    current_swipe,      \* TouchEventRecorder.current_swipe: <<>> is None
    result              \* what the call returned: <<>> before it returns, then <<value>>

captureVars == <<current_touch, recorded_commands, event, first_signal_time>>

replayVars == <<unified_timeline, todo, replay_i, last_time, executed_count, replay_log>>

decodeVars == <<line, event_data>>

discoveryVars == <<dump, devices>>

otherVars == <<call_args, adb_log, system, result,
               active_touches, operation_sequence, dedicated_touch, current_swipe>>

vars == <<current_touch, recorded_commands, event, pc, first_signal_time, touch_device,
          unified_timeline, todo, replay_i, last_time, executed_count, replay_log,
          line, event_data, dump, devices, call_args, adb_log, system,
          active_touches, operation_sequence, dedicated_touch, current_swipe, result>>

\* ------------------------------------------------------------------ bounds

\* capture: raw coordinate samples are 0..CapMaxRaw
CapMaxRaw == 2
\* capture: the clock advances one tick per event read, up to MaxTime
MaxTime == 8
\* classifier inputs: raw X in 0..MaxRawX, raw Y in 0..MaxRawY, times in 1..MaxCallTime
MaxRawX == 5
MaxRawY == 4
MaxCallTime == 3
\* clock ticks per millisecond
TicksPerMs == 2
\* scenario capture: SceneMaxEvents events, one every SceneGapMs milliseconds
SceneMaxEvents == 7
SceneGapMs == 50
\* replay: at most MaxReplayCmds recorded commands and MaxOps timeline operations
MaxReplayCmds == 2
MaxOps == 2
\* a recording followed by replay: at most SessionMaxEvents events are captured
SessionMaxEvents == 8
\* the decoder: a line has at most MaxLineParts whitespace-separated fields
MaxLineParts == 4
\* device discovery: a dump has at most MaxBlocks device blocks, for the devices
\* /dev/input/event0 .. event<MaxEventNo>
MaxBlocks == 2
MaxEventNo == 2

\* key presses: press_key is called with times in 0..MaxTimes
MaxTimes == 3

\* advanced capture reads at most RecMaxEvents lines, dedicated capture at most
\* DedMaxEvents
RecMaxEvents == 5
DedMaxEvents == 7

\* dedicated capture: a line is read every DedGapMs milliseconds
DedGapMs == 20

\* the longest line of commands given to the command runner
MaxCommands == 4

\* system start: the objects a constructor may return are 1..MaxObjects
MaxObjects == 2

\* ------------------------------------------------------- program constants

None == -1

EV_SYN == 0
EV_KEY == 1
EV_ABS == 3
ABS_X == 0
ABS_Y == 1
ABS_MT_POSITION_X == 53
ABS_MT_POSITION_Y == 54
ABS_MT_TRACKING_ID == 57
BTN_TOUCH == 330
BTN_LEFT == 272
BTN_RIGHT == 273

\* "screen Y = 1080 - raw X"
SCREEN_Y_BASE == 1080
\* "distance < 5 is a click"
TAP_THRESHOLD_PX == 5

\* the screen and the touch device of the repository's tests
SCREEN_WIDTH == 1080
SCREEN_HEIGHT == 1920
SCREEN_ORIENTATION == 1
TOUCH_MAX_X == 4095
TOUCH_MAX_Y == 4095

\* "DEFAULT_INTERVAL = 0.5", in milliseconds
DEFAULT_INTERVAL == 500
\* "if delay > 0.05", in milliseconds
MIN_DELAY == 50

\* "return 1000 - int(match.group(1))"
PATH_PRIORITY_BASE == 1000

\* "KEY_INTERVAL = 0.2", in ms
KEY_INTERVAL == 200

\* "self.sample_interval = 0.05", in ms, and "self.min_move_distance = 5"
sample_interval == 50
min_move_distance == 5

\* "self.swipe_sample_interval = 0.03", in ms, and "self.min_swipe_distance = 10"
swipe_sample_interval == 30
min_swipe_distance == 10

\* handle_touch_end: "if total_distance >= 5" and "max(segment_duration, 50)"
SWIPE_THRESHOLD_PX == 5
MIN_SEGMENT_MS == 50

\* ------------------------------------------------------------ pure helpers

\* Python truthiness of an optional number: None and 0 are both false
Truthy(v) == v # None /\ v # 0

\* all([...]) over a list of optional numbers
PyAll(values) == \A i \in 1..Len(values) : Truthy(values[i])

\* int(x / d): truncation toward zero
PyInt(x, d) == IF x >= 0 THEN x \div d ELSE -((-x) \div d)

\* the dict literal of listen_touch_events, and what reset_touch_state writes
IdleTouch ==
    [start_time |-> None, end_time |-> None,
     start_x |-> None, start_y |-> None,
     end_x |-> None, end_y |-> None,
     is_touching |-> FALSE]

reset_touch_state(touch) ==
    [touch EXCEPT !.start_time = None, !.end_time = None,
                  !.start_x = None, !.start_y = None,
                  !.end_x = None, !.end_y = None,
                  !.is_touching = FALSE]

\* raw sensor point -> screen point: screen X = raw Y, screen Y = 1080 - raw X
convert_swapped(raw_x, raw_y) == <<SCREEN_Y_BASE - raw_x, raw_y>>

convert(raw_x, raw_y) == <<raw_y, SCREEN_Y_BASE - raw_x>>

\* ((end_x - start_x) ** 2 + (end_y - start_y) ** 2), the square of 'distance'
Distance2(start_pos, end_pos) ==
    (end_pos[1] - start_pos[1]) * (end_pos[1] - start_pos[1])
  + (end_pos[2] - start_pos[2]) * (end_pos[2] - start_pos[2])

\* distance < 5, on the squares
IsClick_inclusive(distance2) == distance2 <= TAP_THRESHOLD_PX * TAP_THRESHOLD_PX

IsClick(distance2) == distance2 < TAP_THRESHOLD_PX * TAP_THRESHOLD_PX

\* f"{start_x},{start_y}"
ClickCommand_end(start_pos, end_pos) == [prefix |-> "", fields |-> end_pos]

ClickCommand(start_pos, end_pos) == [prefix |-> "", fields |-> start_pos]

\* f"SWIPE:{start_x},{start_y},{end_x},{end_y},{duration}"
SwipeCommand(start_pos, end_pos, duration) ==
    [prefix |-> "SWIPE:", fields |-> start_pos \o end_pos \o <<duration>>]

\* the guard of generate_touch_command: not all([...]) returns
SessionFields_no_end_y(touch_data) ==
    <<touch_data.start_x, touch_data.start_y, touch_data.end_x,
      touch_data.start_time, touch_data.end_time>>

SessionFields(touch_data) ==
    <<touch_data.start_x, touch_data.start_y, touch_data.end_x, touch_data.end_y,
      touch_data.start_time, touch_data.end_time>>

\* "self.recorded_commands.append(record)"
AppendRecord_front(commands, record) == <<record>> \o commands

AppendRecord_twice(commands, record) == Append(Append(commands, record), record)

AppendRecord(commands, record) == Append(commands, record)

\* generate_touch_command: the command sequence after the call
generate_touch_command(touch_data, commands) ==
    IF ~PyAll(SessionFields(touch_data))
    THEN commands
    ELSE LET duration  == PyInt(touch_data.end_time - touch_data.start_time, TicksPerMs)
             start_pos == convert(touch_data.start_x, touch_data.start_y)
             end_pos   == convert(touch_data.end_x, touch_data.end_y)
             distance2 == Distance2(start_pos, end_pos)
             click     == IsClick(distance2)
             record    ==
                [type          |-> IF click THEN "click" ELSE "swipe",
                 command       |-> IF click THEN ClickCommand(start_pos, end_pos)
                                            ELSE SwipeCommand(start_pos, end_pos, duration),
                 start_pos     |-> start_pos,
                 end_pos       |-> end_pos,
                 raw_start_pos |-> <<touch_data.start_x, touch_data.start_y>>,
                 raw_end_pos   |-> <<touch_data.end_x, touch_data.end_y>>,
                 duration      |-> duration,
                 distance2     |-> distance2]
         IN  AppendRecord(commands, record)

\* ------------------------------------------------- the touch state machine

\* one EV_ABS coordinate branch: the start is written only while it is None and
\* the touch is open, the end always
SetCoord_overwrite(touch, start_key, end_key, value) ==
    LET started == IF touch.is_touching
                   THEN [touch EXCEPT ![start_key] = value]
                   ELSE touch
    IN  [started EXCEPT ![end_key] = value]

SetCoord_while_idle(touch, start_key, end_key, value) ==
    LET started == IF touch[start_key] = None
                   THEN [touch EXCEPT ![start_key] = value]
                   ELSE touch
    IN  [started EXCEPT ![end_key] = value]

SetCoord(touch, start_key, end_key, value) ==
    LET started == IF touch[start_key] = None /\ touch.is_touching
                   THEN [touch EXCEPT ![start_key] = value]
                   ELSE touch
    IN  [started EXCEPT ![end_key] = value]

\* event['value'] == 1 of a touch button: press
IsPress(value) == value = 1

\* event['value'] == 0 of a touch button: release
IsRelease_else(value) == value # 1

IsRelease(value) == value = 0

\* press: the touch opens and start_time is the event's timestamp
TouchDown(touch, timestamp) ==
    [touch EXCEPT !.is_touching = TRUE, !.start_time = timestamp]

\* release: end_time, generate_touch_command, reset_touch_state
TouchUp_reset_first(touch, timestamp, commands) ==
    LET closed == [touch EXCEPT !.is_touching = FALSE, !.end_time = timestamp]
    IN  [touch    |-> reset_touch_state(closed),
         commands |-> generate_touch_command(reset_touch_state(closed), commands)]

TouchUp(touch, timestamp, commands) ==
    LET closed == [touch EXCEPT !.is_touching = FALSE, !.end_time = timestamp]
    IN  [touch    |-> reset_touch_state(closed),
         commands |-> generate_touch_command(closed, commands)]

\* process_touch_event: the session and the command sequence after the event
process_touch_event(e, touch, commands) ==
    LET same == [touch |-> touch, commands |-> commands] IN
    IF e.type = EV_ABS THEN
        IF e.code = ABS_MT_POSITION_X
        THEN [same EXCEPT !.touch = SetCoord(touch, "start_x", "end_x", e.value)]
        ELSE IF e.code = ABS_MT_POSITION_Y
        THEN [same EXCEPT !.touch = SetCoord(touch, "start_y", "end_y", e.value)]
        ELSE IF e.code = ABS_X
        THEN [same EXCEPT !.touch = SetCoord(touch, "start_x", "end_x", e.value)]
        ELSE IF e.code = ABS_Y
        THEN [same EXCEPT !.touch = SetCoord(touch, "start_y", "end_y", e.value)]
        ELSE same
    ELSE IF e.type = EV_KEY THEN
        IF e.code = BTN_TOUCH \/ e.code \in {BTN_LEFT, BTN_RIGHT}
        THEN IF IsPress(e.value)
             THEN [same EXCEPT !.touch = TouchDown(touch, e.timestamp)]
             ELSE IF IsRelease(e.value)
             THEN TouchUp(touch, e.timestamp, commands)
             ELSE same
        ELSE same
    ELSE same

\* ---------------------------------------------------------------- events

\* the decoded events the capture loop can be handed at clock value timestamp
AbsEvents(timestamp) ==
    [type : {EV_ABS},
     code : {ABS_X, ABS_Y, ABS_MT_POSITION_X, ABS_MT_POSITION_Y, ABS_MT_TRACKING_ID},
     value : 0..CapMaxRaw,
     timestamp : {timestamp}]

KeyEvents(timestamp) ==
    [type : {EV_KEY},
     code : {BTN_TOUCH, BTN_LEFT, BTN_RIGHT},
     value : 0..2,
     timestamp : {timestamp}]

SynEvents(timestamp) ==
    [type : {EV_SYN}, code : {0}, value : {0}, timestamp : {timestamp}]

NoEvent == [type |-> None, code |-> None, value |-> None, timestamp |-> 0]

\* what kind of event e is
IsXSample(e) == e.type = EV_ABS /\ e.code \in {ABS_MT_POSITION_X, ABS_X}
IsYSample(e) == e.type = EV_ABS /\ e.code \in {ABS_MT_POSITION_Y, ABS_Y}
IsSample(e) == IsXSample(e) \/ IsYSample(e)
IsTouchKey(e) == e.type = EV_KEY /\ e.code \in {BTN_TOUCH, BTN_LEFT, BTN_RIGHT}
IsTouchDown(e) == IsTouchKey(e) /\ e.value = 1
IsTouchUp(e) == IsTouchKey(e) /\ e.value = 0
IsStartSignal(e) == IsSample(e) \/ IsTouchDown(e)

\* ------------------------------------------------------- simple capture

\* the device of the tests, and no replay under way
TestDevice == [max_x |-> TOUCH_MAX_X, max_y |-> TOUCH_MAX_Y]

ReplayIdle ==
    /\ unified_timeline = <<>>
    /\ todo = <<>>
    /\ replay_i = 0
    /\ last_time = 0
    /\ executed_count = 0
    /\ replay_log = <<>>

\* no line read yet, no device list asked for
InputIdle ==
    /\ line = [stamp |-> <<>>, parts |-> <<>>]
    /\ event_data = <<>>
    /\ dump = <<>>
    /\ devices = <<>>

\* SystemComponents(): no component yet, not initialised
EmptySystem ==
    [device_state |-> None, adb_executor |-> None, touch_recorder |-> None,
     is_initialized |-> FALSE]

\* the recorder as __init__ leaves it, and the locals of the dedicated loop
\* before its first line
RecorderIdle ==
    /\ active_touches = <<>>
    /\ operation_sequence = <<>>
    /\ dedicated_touch = [is_touching |-> FALSE, last_sample_time |-> 0,
                          current_raw_x |-> None, current_raw_y |-> None]
    /\ current_swipe = <<>>

\* no other function called yet
OtherIdle ==
    /\ call_args = <<>>
    /\ adb_log = <<>>
    /\ system = EmptySystem
    /\ result = <<>>
    /\ RecorderIdle

Init ==
    /\ current_touch = IdleTouch
    /\ recorded_commands = <<>>
    /\ event = NoEvent
    /\ pc = "capture"
    /\ first_signal_time = None
    /\ touch_device = TestDevice
    /\ OtherIdle
    /\ ReplayIdle
    /\ InputIdle

\* one turn of the loop of listen_touch_events on a line that decodes to e
Handle(e) ==
    LET after == process_touch_event(e, current_touch, recorded_commands) IN
    /\ current_touch' = after.touch
    /\ recorded_commands' = after.commands
    /\ event' = e
    /\ first_signal_time' =
          IF IsTouchUp(e) THEN None
          ELSE IF first_signal_time = None /\ IsStartSignal(e) THEN e.timestamp
          ELSE first_signal_time
    /\ UNCHANGED <<touch_device, otherVars, replayVars, discoveryVars>>

ReadAbs ==
    /\ pc = "capture"
    /\ event.timestamp < MaxTime
    /\ \E e \in AbsEvents(event.timestamp + 1) : Handle(e)
    /\ UNCHANGED <<pc, decodeVars>>

ReadKey ==
    /\ pc = "capture"
    /\ event.timestamp < MaxTime
    /\ \E e \in KeyEvents(event.timestamp + 1) : Handle(e)
    /\ UNCHANGED <<pc, decodeVars>>

ReadSyn ==
    /\ pc = "capture"
    /\ event.timestamp < MaxTime
    /\ \E e \in SynEvents(event.timestamp + 1) : Handle(e)
    /\ UNCHANGED <<pc, decodeVars>>

\* the command sequence when listen_touch_events is left at time now: the loop
\* breaks (or KeyboardInterrupt passes through), "finally" terminates the
\* getevent process, and the local dict current_touch is not looked at again
AfterLoop_flush(touch, commands, now) ==
    generate_touch_command([touch EXCEPT !.end_time = now], commands)

AfterLoop(touch, commands, now) == commands

\* readline() returns '' (the stream ended) or Ctrl+C stops the recording
StopCapture ==
    /\ pc = "capture"
    /\ pc' = "stopped"
    /\ recorded_commands' = AfterLoop(current_touch, recorded_commands, event.timestamp)
    /\ UNCHANGED <<current_touch, event, first_signal_time, touch_device, otherVars, replayVars, decodeVars, discoveryVars>>

Next == ReadAbs \/ ReadKey \/ ReadSyn \/ StopCapture

Spec == Init /\ [][Next]_vars

\* ------------------------------------------- the classifier called alone

\* the sessions generate_touch_command is called with
\* raw values near the origin, and the far end of the device's range
RawXValues == 0..MaxRawX \cup {SCREEN_Y_BASE + 1, TOUCH_MAX_X}
RawYValues == 0..MaxRawY \cup {TOUCH_MAX_Y}

TouchData ==
    [start_time : {None} \cup 1..MaxCallTime,
     end_time : {None} \cup 1..MaxCallTime,
     start_x : {None} \cup RawXValues,
     start_y : {None} \cup RawYValues,
     end_x : {None} \cup RawXValues,
     end_y : {None} \cup RawYValues,
     is_touching : {FALSE}]

\* the axis maxima a device can declare: none (0) or the tests' 4095
TouchDevices == [max_x : {0, TOUCH_MAX_X}, max_y : {0, TOUCH_MAX_Y}]

InitCall ==
    /\ current_touch \in TouchData
    /\ recorded_commands = <<>>
    /\ event = NoEvent
    /\ pc = "call"
    /\ first_signal_time = None
    /\ touch_device \in TouchDevices
    /\ OtherIdle
    /\ ReplayIdle
    /\ InputIdle

Generate ==
    /\ pc = "call"
    /\ recorded_commands' = generate_touch_command(current_touch, recorded_commands)
    /\ pc' = "returned"
    /\ UNCHANGED <<current_touch, event, first_signal_time, touch_device, otherVars, replayVars, decodeVars, discoveryVars>>

NextCall == Generate

SpecCall == InitCall /\ [][NextCall]_vars

\* ------------------------------------- capture of the scenario gestures

\* the raw values of the scenarios: the origin, the middle and the far end of
\* the device's range
MidRawX == (TOUCH_MAX_X + 1) \div 2
MidRawY == (TOUCH_MAX_Y + 1) \div 2

SceneAbsEvents(timestamp) ==
    [type : {EV_ABS}, code : {ABS_MT_POSITION_X},
     value : {0, MidRawX, TOUCH_MAX_X}, timestamp : {timestamp}]
    \cup
    [type : {EV_ABS}, code : {ABS_MT_POSITION_Y},
     value : {MidRawY, TOUCH_MAX_Y}, timestamp : {timestamp}]

SceneKeyEvents(timestamp) ==
    [type : {EV_KEY}, code : {BTN_TOUCH}, value : {0, 1}, timestamp : {timestamp}]

InitScene ==
    /\ current_touch = IdleTouch
    /\ recorded_commands = <<>>
    /\ event = NoEvent
    /\ pc = "scene"
    /\ first_signal_time = None
    /\ touch_device = TestDevice
    /\ OtherIdle
    /\ ReplayIdle
    /\ InputIdle

\* the clock value of the next event, SceneGapMs after the last
SceneNow == event.timestamp + SceneGapMs * TicksPerMs

SceneReadAbs ==
    /\ pc = "scene"
    /\ SceneNow <= SceneMaxEvents * SceneGapMs * TicksPerMs
    /\ \E e \in SceneAbsEvents(SceneNow) : Handle(e)
    /\ UNCHANGED <<pc, decodeVars>>

SceneReadKey ==
    /\ pc = "scene"
    /\ SceneNow <= SceneMaxEvents * SceneGapMs * TicksPerMs
    /\ \E e \in SceneKeyEvents(SceneNow) : Handle(e)
    /\ UNCHANGED <<pc, decodeVars>>

NextScene == SceneReadAbs \/ SceneReadKey

SpecScene == InitScene /\ [][NextScene]_vars

\* ------------------------------------------------------------------ replay

\* an entry of replay_log: a call of tap_screen ("tap") or swipe_screen
\* ("swipe") with its arguments and its result, a call of time.sleep ("sleep")
\* with its length in ticks, or a print
Log(kind, args, ok) == [kind |-> kind, args |-> args, ok |-> ok]

Printed(kind) == Log(kind, <<>>, TRUE)

\* "coords = command.split(','); x, y = int(coords[0]), int(coords[1])"
TapArgs_swapped(command) == <<command.fields[2], command.fields[1]>>

TapArgs(command) == <<command.fields[1], command.fields[2]>>

\* "params = command[6:].split(','); x1, y1, x2, y2, duration = map(int, params)":
\* the six characters dropped are the prefix "SWIPE:"
SwipeArgs(command) ==
    <<command.fields[1], command.fields[2], command.fields[3],
      command.fields[4], command.fields[5]>>

\* the actuation call of one record or operation, returning success
Actuate(record, success) ==
    IF record.type = "click"
    THEN Log("tap", TapArgs(record.command), success)
    ELSE Log("swipe", SwipeArgs(record.command), success)

\* "if success: print ok / else: print failed; break"
Report(success) == Printed(IF success THEN "print_ok" ELSE "print_failed")

LoopExit_never(success) == FALSE

LoopExit(success) == ~success

\* simple replay: "if i < len(self.recorded_commands): time.sleep(DEFAULT_INTERVAL)"
SimpleSleep(i, n) ==
    IF i < n THEN <<Log("sleep", <<DEFAULT_INTERVAL * TicksPerMs>>, TRUE)>> ELSE <<>>

\* dedicated replay: "if delay > 0.05: time.sleep(delay)"
DedicatedSleep(delay) ==
    IF delay > MIN_DELAY * TicksPerMs THEN <<Log("sleep", <<delay>>, TRUE)>> ELSE <<>>

\* test_generated_commands, choice 3: the separator printed between the replays
RunEnd == IF Len(todo) > 1 THEN <<Printed("print_separator")>> ELSE <<>>

AfterRun == IF Len(todo) > 1 THEN "confirm" ELSE "done"

\* the replays a menu choice runs
Plan(choice) ==
    CASE choice = "1" -> <<"simple">>
      [] choice = "2" -> <<"dedicated">>
      [] choice = "3" -> <<"simple", "dedicated">>
      [] OTHER -> <<>>

MenuChoices == {"1", "2", "3", "x"}

\* the records replay is given: a tap and a swipe as generate_touch_command
\* records them
ReplayTouches ==
    [start_time : {1}, end_time : {2}, start_x : {1}, start_y : {1},
     end_x : {1, TOUCH_MAX_X}, end_y : {1}, is_touching : {FALSE}]

ReplayRecords == {generate_touch_command(t, <<>>)[1] : t \in ReplayTouches}

RecordedCommandLists == UNION {[1..k -> ReplayRecords] : k \in 0..MaxReplayCmds}

\* the operations of a timeline: a comment, a tap, a swipe
OpKinds ==
    {[type |-> "comment", command |-> [prefix |-> "#", fields |-> <<>>]]}
    \cup {[type |-> r.type, command |-> r.command] : r \in ReplayRecords}

\* the time between two operations of a timeline, in milliseconds
ReplayGapsMs == {50, 500, 15000}

RECURSIVE Stamp(_, _)
Stamp(gaps, i) == IF i = 1 THEN 1 ELSE Stamp(gaps, i - 1) + gaps[i - 1] * TicksPerMs

\* the timelines of at most MaxOps operations, sorted by timestamp
Timelines ==
    UNION {{[i \in 1..k |-> [type |-> kinds[i].type, command |-> kinds[i].command,
                             timestamp |-> Stamp(gaps, i)]] :
                kinds \in [1..k -> OpKinds], gaps \in [1..(k - 1) -> ReplayGapsMs]} :
           k \in 0..MaxOps}

InitReplay ==
    /\ current_touch = IdleTouch
    /\ recorded_commands \in RecordedCommandLists
    /\ event = NoEvent
    /\ pc = "menu"
    /\ first_signal_time = None
    /\ touch_device = TestDevice
    /\ OtherIdle
    /\ unified_timeline \in Timelines
    /\ todo = <<>>
    /\ replay_i = 0
    /\ last_time = 0
    /\ executed_count = 0
    /\ replay_log = <<>>
    /\ InputIdle

\* test_generated_commands, up to the replay it starts
test_generated_commands ==
    /\ pc = "menu"
    /\ LET simple_commands == Len(recorded_commands)
           dedicated_operations == Len(unified_timeline)
       IN  IF simple_commands = 0 /\ dedicated_operations = 0
           THEN /\ replay_log' = Append(replay_log, Printed("print_nothing"))
                /\ todo' = <<>>
                /\ pc' = "done"
           ELSE IF simple_commands > 0 /\ dedicated_operations > 0
           THEN \E choice \in MenuChoices :
                    /\ todo' = Plan(choice)
                    /\ replay_log' = IF Plan(choice) = <<>>
                                     THEN Append(replay_log, Printed("print_invalid"))
                                     ELSE replay_log
                    /\ pc' = IF Plan(choice) = <<>> THEN "done" ELSE "confirm"
           ELSE /\ todo' = IF simple_commands > 0 THEN <<"simple">> ELSE <<"dedicated">>
                /\ replay_log' = replay_log
                /\ pc' = "confirm"
    /\ UNCHANGED <<captureVars, touch_device, otherVars, unified_timeline, replay_i, last_time,
                   executed_count, decodeVars, discoveryVars>>

\* test_simple_commands / test_dedicated_sequence, up to the first iteration:
\* the question "y/n" and the start of the loop
Confirm ==
    /\ pc = "confirm"
    /\ \E confirm \in {"y", "n"} :
        IF confirm # "y"
        THEN /\ replay_log' = Append(replay_log, Printed("print_cancel")) \o RunEnd
             /\ todo' = Tail(todo)
             /\ pc' = AfterRun
             /\ UNCHANGED <<replay_i, last_time, executed_count>>
        ELSE /\ replay_log' = Append(replay_log,
                                     Printed(IF Head(todo) = "simple"
                                             THEN "print_start_simple"
                                             ELSE "print_start_dedicated"))
             /\ replay_i' = 1
             /\ last_time' = IF Head(todo) = "dedicated"
                             THEN unified_timeline[1].timestamp ELSE last_time
             /\ executed_count' = IF Head(todo) = "dedicated" THEN 0 ELSE executed_count
             /\ pc' = "loop"
             /\ UNCHANGED todo
    /\ UNCHANGED <<captureVars, touch_device, otherVars, unified_timeline, decodeVars, discoveryVars>>

\* one iteration of the loop of test_simple_commands, and what follows the loop
\* when it is the last
SimpleIteration ==
    /\ pc = "loop"
    /\ Head(todo) = "simple"
    /\ \E success \in BOOLEAN :
        LET record == recorded_commands[replay_i]
            n      == Len(recorded_commands)
            exit   == LoopExit(success)
            last   == exit \/ replay_i = n
            done   == <<Actuate(record, success), Report(success)>>
                      \o (IF exit THEN <<>> ELSE SimpleSleep(replay_i, n))
        IN  /\ replay_log' = replay_log \o done
                             \o (IF last
                                 THEN <<Printed("print_simple_done")>> \o RunEnd
                                 ELSE <<>>)
            /\ replay_i' = IF last THEN replay_i ELSE replay_i + 1
            /\ todo' = IF last THEN Tail(todo) ELSE todo
            /\ pc' = IF last THEN AfterRun ELSE "loop"
    /\ UNCHANGED <<captureVars, touch_device, otherVars, unified_timeline, last_time, executed_count,
                   decodeVars, discoveryVars>>

\* one iteration of the loop of test_dedicated_sequence, and what follows the
\* loop when it is the last
DedicatedIteration ==
    /\ pc = "loop"
    /\ Head(todo) = "dedicated"
    /\ \E success \in BOOLEAN :
        LET op           == unified_timeline[replay_i]
            n            == Len(unified_timeline)
            comment      == op.type = "comment"
            current_time == op.timestamp
            delay        == current_time - last_time
            exit         == ~comment /\ LoopExit(success)
            last         == exit \/ replay_i = n
            count        == IF comment THEN executed_count ELSE executed_count + 1
            done         == IF comment
                            THEN <<Printed("print_comment")>>
                            ELSE DedicatedSleep(delay)
                                 \o <<Actuate(op, success), Report(success)>>
        IN  /\ comment => success
            /\ executed_count' = count
            /\ last_time' = IF ~comment /\ success THEN current_time ELSE last_time
            /\ replay_log' = replay_log \o done
                             \o (IF last
                                 THEN <<Log("print_dedicated_done", <<count>>, TRUE)>>
                                      \o RunEnd
                                 ELSE <<>>)
            /\ replay_i' = IF last THEN replay_i ELSE replay_i + 1
            /\ todo' = IF last THEN Tail(todo) ELSE todo
            /\ pc' = IF last THEN AfterRun ELSE "loop"
    /\ UNCHANGED <<captureVars, touch_device, otherVars, unified_timeline, decodeVars, discoveryVars>>

NextReplay ==
    \/ test_generated_commands
    \/ Confirm
    \/ SimpleIteration
    \/ DedicatedIteration

SpecReplay == InitReplay /\ [][NextReplay]_vars

\* ------------------------------------------------------------ the decoder

\* Text is a sequence of one-character strings.  A number the decoder reads is
\* kept exactly, as a sign and two 16-bit halves [neg, high, low]: Python's
\* integers have no width, and eight hexadecimal digits need 32 bits.

HALF == 65536

Number(neg, high, low) == [neg |-> neg, high |-> high, low |-> low]

\* the number n, 0 <= n < 2^31, in that form, and back
Small(n) == Number(FALSE, n \div HALF, n % HALF)

Plain(number) == (IF number.neg THEN 0 - 1 ELSE 1) * (number.high * HALF + number.low)

Fits(number) == number.high < HALF \div 2

HexLower == <<"0", "1", "2", "3", "4", "5", "6", "7", "8", "9", "a", "b", "c", "d", "e", "f">>
HexUpper == <<"0", "1", "2", "3", "4", "5", "6", "7", "8", "9", "A", "B", "C", "D", "E", "F">>

IsHexChar(c) == \E i \in 1..16 : HexLower[i] = c \/ HexUpper[i] = c

DigitValue(c) == (CHOOSE i \in 1..16 : HexLower[i] = c \/ HexUpper[i] = c) - 1

RECURSIVE HexValue(_)
HexValue(digits) ==
    IF digits = <<>> THEN 0
    ELSE HexValue(SubSeq(digits, 1, Len(digits) - 1)) * 16 + DigitValue(digits[Len(digits)])

\* int(text, 16) of a text of at most eight digits, without whitespace or
\* underscores: <<n>>, or <<>> where Python raises ValueError.  A sign and a
\* prefix 0x are accepted.
PyIntBase16(text) ==
    LET negative == text # <<>> /\ text[1] = "-"
        unsigned == IF text # <<>> /\ text[1] \in {"+", "-"} THEN Tail(text) ELSE text
        digits   == IF Len(unsigned) >= 2 /\ unsigned[1] = "0" /\ unsigned[2] \in {"x", "X"}
                    THEN SubSeq(unsigned, 3, Len(unsigned))
                    ELSE unsigned
        split    == IF Len(digits) > 4 THEN Len(digits) - 4 ELSE 0
    IN  IF digits = <<>> \/ \E i \in 1..Len(digits) : ~IsHexChar(digits[i])
        THEN <<>>
        ELSE <<Number(negative /\ HexValue(digits) # 0,
                      HexValue(SubSeq(digits, 1, split)),
                      HexValue(SubSeq(digits, split + 1, Len(digits))))>>

IsSpace(c) == c \in {" ", "\n"}

RECURSIVE LStrip(_)
LStrip(text) == IF text # <<>> /\ IsSpace(text[1]) THEN LStrip(Tail(text)) ELSE text

RECURSIVE RStrip(_)
RStrip(text) ==
    IF text # <<>> /\ IsSpace(text[Len(text)])
    THEN RStrip(SubSeq(text, 1, Len(text) - 1))
    ELSE text

\* str.strip()
Strip(text) == RStrip(LStrip(text))

\* str.rstrip(':')
RECURSIVE RStripColon(_)
RStripColon(text) ==
    IF text # <<>> /\ text[Len(text)] = ":"
    THEN RStripColon(SubSeq(text, 1, Len(text) - 1))
    ELSE text

\* str.find(c), counted from 1: 0 where Python returns -1
Find(text, c) ==
    IF \E i \in 1..Len(text) : text[i] = c
    THEN CHOOSE i \in 1..Len(text) : text[i] = c /\ \A j \in 1..(i - 1) : text[j] # c
    ELSE 0

\* str.split(): the maximal runs of characters that are not whitespace
RECURSIVE Split(_)
Split(text) ==
    LET t == LStrip(text) IN
    IF t = <<>> THEN <<>>
    ELSE LET n == IF \E i \in 1..Len(t) : IsSpace(t[i])
                  THEN CHOOSE i \in 1..Len(t) :
                          IsSpace(t[i]) /\ \A j \in 1..(i - 1) : ~IsSpace(t[j])
                  ELSE Len(t) + 1
         IN  <<SubSeq(t, 1, n - 1)>> \o Split(SubSeq(t, n, Len(t)))

\* "if line.startswith('['): ... line = line[bracket_end + 1:].strip()"
DropTimestamp(text) ==
    IF text # <<>> /\ text[1] = "[" /\ Find(text, "]") # 0
    THEN Strip(SubSeq(text, Find(text, "]") + 1, Len(text)))
    ELSE text

\* where type, code and value are among the parts: after the device path when
\* there are four parts or more
FieldOffset_zero(n) == 0

FieldOffset(n) == IF n = 3 THEN 0 ELSE 1

\* parse_event_line at time now: <<>> for None, <<event_data>> for the dict
parse_event_line(text, now) ==
    LET parts == Split(DropTimestamp(text))
        at    == FieldOffset(Len(parts))
    IN  IF Len(parts) < 3 THEN <<>>
        ELSE LET event_type  == PyIntBase16(parts[at + 1])
                 event_code  == PyIntBase16(parts[at + 2])
                 event_value == PyIntBase16(parts[at + 3])
             IN  IF event_type = <<>> \/ event_code = <<>> \/ event_value = <<>>
                 THEN <<>>
                 ELSE <<[device    |-> IF Len(parts) = 3
                                       THEN <<"u", "n", "k", "n", "o", "w", "n">>
                                       ELSE RStripColon(parts[1]),
                         type      |-> event_type[1],
                         code      |-> event_code[1],
                         value     |-> event_value[1],
                         timestamp |-> now]>>

\* the fields lines are made of, each with what it is: hexadecimal digits only
\* or not, and the number its digits write
Fields ==
    {[text |-> <<"0", "0", "0", "3">>, hex |-> TRUE, value |-> Small(EV_ABS)],
     [text |-> <<"0", "0", "3", "5">>, hex |-> TRUE, value |-> Small(ABS_MT_POSITION_X)],
     [text |-> <<"0", "0", "0", "1">>, hex |-> TRUE, value |-> Small(EV_KEY)],
     [text |-> <<"0", "1", "4", "a">>, hex |-> TRUE, value |-> Small(BTN_TOUCH)],
     [text |-> <<"0", "0", "0", "0">>, hex |-> TRUE, value |-> Small(0)],
     [text |-> <<"f", "f", "f", "f", "f", "f", "f", "f">>, hex |-> TRUE,
      value |-> Number(FALSE, HALF - 1, HALF - 1)],
     [text |-> <<"-", "1">>, hex |-> FALSE, value |-> Small(0)],
     [text |-> <<"/", "e", "2", ":">>, hex |-> FALSE, value |-> Small(0)]}

\* what getevent -t may put before the fields: nothing, or a bracketed time
\* followed by a space or by nothing
Stamps ==
    {<<>>,
     <<"[", " ", "1", ".", "5", "]", " ">>,
     <<"[", " ", "1", ".", "5", "]">>}

\* the lines of getevent: a stamp and at most MaxLineParts fields
Lines ==
    UNION {[stamp : Stamps, parts : [1..k -> Fields]] : k \in 0..MaxLineParts}

RECURSIVE Join(_)
Join(parts) ==
    IF parts = <<>> THEN <<>>
    ELSE IF Len(parts) = 1 THEN parts[1].text
    ELSE parts[1].text \o <<" ">> \o Join(Tail(parts))

\* the characters of a line as readline() returns it
Text(l) == l.stamp \o Join(l.parts) \o <<"\n">>

\* a touch under way when the line is read
ArmedTouch ==
    [start_time |-> 1, end_time |-> None, start_x |-> 1, start_y |-> 1,
     end_x |-> 1, end_y |-> 1, is_touching |-> TRUE]

InitDecode ==
    /\ current_touch \in {IdleTouch, ArmedTouch}
    /\ recorded_commands = <<>>
    /\ event = NoEvent
    /\ pc = "readline"
    /\ first_signal_time = None
    /\ touch_device = TestDevice
    /\ OtherIdle
    /\ ReplayIdle
    /\ InputIdle

\* the event of the capture loop for the dict parse_event_line returned
PlainEvent(e) ==
    [type |-> Plain(e.type), code |-> Plain(e.code),
     value |-> Plain(e.value), timestamp |-> e.timestamp]

\* "if line.strip(): event_data = self.parse_event_line(line.strip())"
Decoded(l, now) ==
    IF Strip(Text(l)) = <<>> THEN <<>> ELSE parse_event_line(Strip(Text(l)), now)

\* the lines whose numbers all fit 31 bits
PlainLines ==
    {l \in Lines : \A i \in 1..Len(l.parts) : Fits(l.parts[i].value)}

\* one turn of the loop of listen_touch_events: readline(), "if line.strip()",
\* parse_event_line, "if event_data: process_touch_event"
ReadLine ==
    /\ pc = "readline"
    /\ \E l \in PlainLines :
        /\ line' = l
        /\ event_data' = Decoded(l, event.timestamp + 1)
        /\ IF event_data' # <<>>
           THEN Handle(PlainEvent(event_data'[1]))
           ELSE UNCHANGED <<captureVars, touch_device, otherVars, replayVars, discoveryVars>>
    /\ pc' = "handled"

NextDecode == ReadLine

SpecDecode == InitDecode /\ [][NextDecode]_vars

\* parse_event_line called alone, on any line
InitParse ==
    /\ current_touch = IdleTouch
    /\ recorded_commands = <<>>
    /\ event = NoEvent
    /\ pc = "parse"
    /\ first_signal_time = None
    /\ touch_device = TestDevice
    /\ OtherIdle
    /\ ReplayIdle
    /\ InputIdle

ParseLine ==
    /\ pc = "parse"
    /\ \E l \in Lines :
        /\ line' = l
        /\ event_data' = parse_event_line(Strip(Text(l)), event.timestamp + 1)
    /\ pc' = "parsed"
    /\ UNCHANGED <<captureVars, touch_device, otherVars, replayVars, discoveryVars>>

NextParse == ParseLine

SpecParse == InitParse /\ [][NextParse]_vars

\* ------------------------------------------------------- device discovery

\* A device is [path, name]: path n stands for /dev/input/event<n>.  A block of
\* the dump is [path, name, axes, max]: the "add device" line, the name line
\* ("" when there is none), the axis lines it holds and the maximum they state.

EventNos == 0..MaxEventNo

\* "priority_patterns"
priority_patterns ==
    <<"goodix", "synaptics", "atmel", "elan", "cypress", "touchscreen", "touch_dev",
      "touch_panel", "tp", "ft5x06", "gt9xx", "nt36xxx", "ili2xxx", "touch">>

\* "pattern in name_lower", for the names of the model
Contains(name, pattern) == name = "touchscreen" /\ pattern \in {"touchscreen", "touch"}

\* get_priority of _sort_devices_by_priority
get_priority(device) ==
    IF \E i \in 1..Len(priority_patterns) : Contains(device.name, priority_patterns[i])
    THEN (CHOOSE i \in 1..Len(priority_patterns) :
             /\ Contains(device.name, priority_patterns[i])
             /\ \A j \in 1..(i - 1) : ~Contains(device.name, priority_patterns[j])) - 1
    ELSE PATH_PRIORITY_BASE - device.path

\* "sorted(devices, key=get_priority)": ascending and stable
RECURSIVE sort_devices_by_priority(_)
sort_devices_by_priority(list) ==
    IF list = <<>> THEN <<>>
    ELSE LET rest == sort_devices_by_priority(SubSeq(list, 1, Len(list) - 1))
             last == list[Len(list)]
             n    == Cardinality({i \in 1..Len(rest) :
                                    get_priority(rest[i]) <= get_priority(last)})
         IN  SubSeq(rest, 1, n) \o <<last>> \o SubSeq(rest, n + 1, Len(rest))

\* the axis lines a block may hold
AxisSets ==
    {{}, {"ABS_MT_POSITION_X"}, {"ABS_MT_POSITION_Y"},
     {"ABS_MT_POSITION_X", "ABS_MT_POSITION_Y"}, {"ABS_X", "ABS_Y"}}

Blocks == [path : EventNos, name : {"", "touchscreen"}, axes : AxisSets, max : {TOUCH_MAX_X}]

\* the dumps of at most MaxBlocks blocks, each device once
Dumps ==
    UNION {{d \in [1..k -> Blocks] :
                \A i \in 1..k : \A j \in 1..k : i # j => d[i].path # d[j].path} :
           k \in 0..MaxBlocks}

\* "'ABS_MT_POSITION_X' in line or 'ABS_X' in line or 'ABS_Y' in line": the axis
\* lines kept in 'caps'
Caps(block) == block.axes \cap {"ABS_MT_POSITION_X", "ABS_X", "ABS_Y"}

\* "any('ABS_MT_POSITION' in cap or 'ABS_X' in cap for cap in info['caps'])"
IsTouchBlock(block) == Caps(block) \cap {"ABS_MT_POSITION_X", "ABS_X"} # {}

Device(path, name) == [path |-> path, name |-> name]

\* the devices of the blocks that pass, in dump order
ListedDevices(d) ==
    LET entry(block) == Device(block.path, block.name)
        listed == SelectSeq(d, IsTouchBlock)
    IN  [i \in 1..Len(listed) |-> entry(listed[i])]

\* what the fallback scan meets: the event devices that exist, the name sysfs
\* gives them, and whether adb raised
Scans == [exists : SUBSET EventNos, name : {"unknown", "touchscreen"}, raised : BOOLEAN]

RECURSIVE Ascending(_)
Ascending(set) ==
    IF set = {} THEN <<>>
    ELSE LET least == CHOOSE n \in set : \A m \in set : n <= m
         IN  <<least>> \o Ascending(set \ {least})

\* _fallback_scan_devices
fallback_scan_devices(scan) ==
    IF scan.raised
    THEN <<Device(3, "unknown"), Device(2, "unknown"), Device(1, "unknown"),
           Device(0, "unknown")>>
    ELSE LET found == Ascending(scan.exists)
         IN  sort_devices_by_priority([i \in 1..Len(found) |-> Device(found[i], scan.name)])

InitDiscovery ==
    /\ current_touch = IdleTouch
    /\ recorded_commands = <<>>
    /\ event = NoEvent
    /\ pc = "discover"
    /\ first_signal_time = None
    /\ touch_device = TestDevice
    /\ OtherIdle
    /\ ReplayIdle
    /\ line = [stamp |-> <<>>, parts |-> <<>>]
    /\ event_data = <<>>
    /\ dump \in Dumps
    /\ devices = <<>>

\* how "subprocess.run(command, ..., timeout=10)" of "getevent -p" can end: it
\* returns with code 0 or not, times out (TimeoutExpired) or raises
CallOutcomes == {"ok", "nonzero", "timeout", "raised"}

\* get_available_touch_devices: "getevent -p" ended with the outcome and, when
\* it returned, the dump; the fallback scan runs when the call failed ("if
\* result.returncode != 0", "except Exception") or listed nothing
get_available_touch_devices ==
    /\ pc = "discover"
    /\ \E outcome \in CallOutcomes, scan \in Scans :
        IF outcome = "ok" /\ ListedDevices(dump) # <<>>
        THEN /\ devices' = sort_devices_by_priority(ListedDevices(dump))
             /\ pc' = "listed"
        ELSE /\ devices' = fallback_scan_devices(scan)
             /\ pc' = IF outcome = "ok" THEN "scanned" ELSE "failed"
    /\ UNCHANGED <<captureVars, touch_device, otherVars, replayVars, decodeVars, dump>>

NextDiscovery == get_available_touch_devices

SpecDiscovery == InitDiscovery /\ [][NextDiscovery]_vars

\* ------------------------------------------------ recording, then replay

\* the events of the recording: X at the middle or the far end, Y at the
\* middle, touch-down and touch-up
SessionEvents(timestamp) ==
    [type : {EV_ABS}, code : {ABS_MT_POSITION_X},
     value : {MidRawX, TOUCH_MAX_X}, timestamp : {timestamp}]
    \cup
    [type : {EV_ABS}, code : {ABS_MT_POSITION_Y},
     value : {MidRawY}, timestamp : {timestamp}]
    \cup SceneKeyEvents(timestamp)

\* a fresh recorder starts a simple recording; a dedicated recording made
\* before has left at most one operation
InitSession ==
    /\ current_touch = IdleTouch
    /\ recorded_commands = <<>>
    /\ event = NoEvent
    /\ pc = "record"
    /\ first_signal_time = None
    /\ touch_device = TestDevice
    /\ OtherIdle
    /\ unified_timeline \in {t \in Timelines : Len(t) <= 1}
    /\ todo = <<>>
    /\ replay_i = 0
    /\ last_time = 0
    /\ executed_count = 0
    /\ replay_log = <<>>
    /\ InputIdle

SessionRead ==
    /\ pc = "record"
    /\ SceneNow <= SessionMaxEvents * SceneGapMs * TicksPerMs
    /\ \E e \in SessionEvents(SceneNow) : Handle(e)
    /\ UNCHANGED <<pc, decodeVars>>

\* the recording ends and the menu is back: test_generated_commands can be chosen
SessionStop ==
    /\ pc = "record"
    /\ pc' = "menu"
    /\ recorded_commands' = AfterLoop(current_touch, recorded_commands, event.timestamp)
    /\ UNCHANGED <<current_touch, event, first_signal_time, touch_device, otherVars, replayVars, decodeVars, discoveryVars>>

NextSession ==
    \/ SessionRead
    \/ SessionStop
    \/ test_generated_commands
    \/ Confirm
    \/ SimpleIteration
    \/ DedicatedIteration

SpecSession == InitSession /\ [][NextSession]_vars

\* ------------------------------------------------------------ properties

\* a step of the capture loop that handled a new event
Handled == event' # event

\* the session as generate_touch_command sees it when the touch is released now
ClosedNow == [current_touch EXCEPT !.is_touching = FALSE, !.end_time = event'.timestamp]

\* the six fields a session must have
SixFields == {"start_x", "start_y", "end_x", "end_y", "start_time", "end_time"}

\* C1: once the first of {X sample, Y sample, touch-down} of a session has
\* arrived, the session's start_time is the timestamp of that first signal,
\* whichever kind it was.
C1_StartTimeIsFirstSignal ==
    first_signal_time # None => current_touch.start_time = first_signal_time

\* C2: at the touch-down that arms a session, a coordinate already known (an X
\* or Y sample that arrived before the touch-down) becomes the session's start
\* coordinate.
C2_KnownCoordIsStart ==
    [][(Handled /\ IsTouchDown(event') /\ ~current_touch.is_touching)
        => /\ current_touch.end_x # None => current_touch'.start_x = current_touch.end_x
           /\ current_touch.end_y # None => current_touch'.start_y = current_touch.end_y]_vars

\* C3: a start coordinate that is set keeps its value through every event but
\* the touch-up, and a sample on an axis whose start is set changes nothing of
\* the session but that axis's end coordinate.
C3_StartNeverOverwritten ==
    [][(Handled /\ ~IsTouchUp(event'))
        => /\ current_touch.start_x # None
                => current_touch'.start_x = current_touch.start_x
           /\ current_touch.start_y # None
                => current_touch'.start_y = current_touch.start_y
           /\ (IsXSample(event') /\ current_touch.start_x # None)
                => current_touch' = [current_touch EXCEPT !.end_x = event'.value]
           /\ (IsYSample(event') /\ current_touch.start_y # None)
                => current_touch' = [current_touch EXCEPT !.end_y = event'.value]]_vars

\* C3 witness: an open touch whose X start is set and whose X end has moved away
\* from it by a later X sample
C3_Witness ==
    /\ IsXSample(event)
    /\ current_touch.is_touching
    /\ current_touch.start_x # None
    /\ current_touch.end_x # current_touch.start_x

\* C4: a touch-up on an open touch gives the session, with end_time the
\* touch-up's timestamp, to the classifier once (at most one record is appended,
\* and its duration runs to the touch-up), and leaves all six fields unset and
\* is_touching false.
C4_TouchUpClosesAndResets ==
    [][(Handled /\ IsTouchUp(event') /\ current_touch.is_touching)
        => /\ current_touch' = IdleTouch
           /\ recorded_commands' = generate_touch_command(ClosedNow, recorded_commands)
           /\ \/ recorded_commands' = recorded_commands
              \/ /\ Len(recorded_commands') = Len(recorded_commands) + 1
                 /\ SubSeq(recorded_commands', 1, Len(recorded_commands)) = recorded_commands
                 /\ recorded_commands'[Len(recorded_commands')].duration =
                       PyInt(event'.timestamp - current_touch.start_time, TicksPerMs)
                 /\ recorded_commands'[Len(recorded_commands')].raw_end_pos =
                       <<current_touch.end_x, current_touch.end_y>>]_vars

\* C4 witness: just after a touch-up that produced a command, the session is idle
C4_Witness ==
    /\ IsTouchUp(event)
    /\ Len(recorded_commands) = 1
    /\ current_touch = IdleTouch

\* C5: while a touch is open, an event that is not a touch-up leaves it open,
\* leaves its start_time set and appends no command.
C5_StaysArmed ==
    [][(Handled /\ current_touch.is_touching /\ ~IsTouchUp(event'))
        => /\ current_touch'.is_touching
           /\ current_touch'.start_time # None
           /\ recorded_commands' = recorded_commands]_vars

\* C5 witness: a touch opened by the first event is still open, with no command,
\* after samples up to the last tick
C5_Witness ==
    /\ current_touch.is_touching
    /\ current_touch.start_time = 1
    /\ current_touch.start_x # None
    /\ current_touch.start_y # None
    /\ IsSample(event)
    /\ event.timestamp = MaxTime
    /\ recorded_commands = <<>>

C7_CompleteSessionEmitsOne ==
    (pc = "returned" /\ \A f \in SixFields : current_touch[f] # None)
        => Len(recorded_commands) = 1

\* C8: an emitted command is a tap exactly when the distance between its
\* transformed endpoints is below TAP_THRESHOLD_PX; at the threshold and above
\* it is a swipe.
C8_TapBoundaryExclusive ==
    (pc = "returned" /\ recorded_commands # <<>>)
        => LET r == recorded_commands[1]
               d2 == Distance2(r.start_pos, r.end_pos)
           IN  /\ d2 < TAP_THRESHOLD_PX * TAP_THRESHOLD_PX
                    => (r.type = "click" /\ r.command.prefix = "")
               /\ d2 >= TAP_THRESHOLD_PX * TAP_THRESHOLD_PX
                    => (r.type = "swipe" /\ r.command.prefix = "SWIPE:")

\* C8 witness: a session whose distance is exactly the threshold came out a swipe
C8_Witness ==
    /\ pc = "returned"
    /\ Len(recorded_commands) = 1
    /\ Distance2(recorded_commands[1].start_pos, recorded_commands[1].end_pos)
          = TAP_THRESHOLD_PX * TAP_THRESHOLD_PX
    /\ recorded_commands[1].type = "swipe"

\* C9 as stated: a tap is placed at the transform of the session's end
\* coordinate.
C9_TapAtEndPoint ==
    (pc = "returned" /\ recorded_commands # <<>> /\ recorded_commands[1].type = "click")
        => recorded_commands[1].command.fields =
              <<current_touch.end_y, SCREEN_Y_BASE - current_touch.end_x>>

\* C9 amended: a tap is placed at the transform of the session's start
\* coordinate, also when the end coordinate differs from it.
C9_TapAtStartPoint ==
    (pc = "returned" /\ recorded_commands # <<>> /\ recorded_commands[1].type = "click")
        => recorded_commands[1].command.fields =
              <<current_touch.start_y, SCREEN_Y_BASE - current_touch.start_x>>

\* C9 witness: a tap whose raw start and end coordinates differ
C9_Witness ==
    /\ pc = "returned"
    /\ Len(recorded_commands) = 1
    /\ recorded_commands[1].type = "click"
    /\ <<current_touch.start_x, current_touch.start_y>>
          # <<current_touch.end_x, current_touch.end_y>>

\* C10: a session classified as a tap appends exactly one record: its command
\* is "x,y" of the transformed start point, start_pos is the transformed start,
\* end_pos the transformed end, and distance the Euclidean distance of the two.
C10_TapRecord ==
    (pc = "returned" /\ recorded_commands # <<>> /\ recorded_commands[1].type = "click")
        => LET r == recorded_commands[1]
               sx == current_touch.start_y
               sy == SCREEN_Y_BASE - current_touch.start_x
               ex == current_touch.end_y
               ey == SCREEN_Y_BASE - current_touch.end_x
           IN  /\ Len(recorded_commands) = 1
               /\ r.command = [prefix |-> "", fields |-> <<sx, sy>>]
               /\ r.start_pos = <<sx, sy>>
               /\ r.end_pos = <<ex, ey>>
               /\ r.distance2 = (ex - sx) * (ex - sx) + (ey - sy) * (ey - sy)

\* C10 witness: a tap record between endpoints two pixels apart on each axis
C10_Witness ==
    /\ pc = "returned"
    /\ Len(recorded_commands) = 1
    /\ recorded_commands[1].type = "click"
    /\ recorded_commands[1].end_pos[1] - recorded_commands[1].start_pos[1] = 2
    /\ recorded_commands[1].end_pos[2] - recorded_commands[1].start_pos[2] = 2

\* the transform of the design's orientation table: normalise by the axis
\* maxima, map by orientation, truncate
TableTransform(orientation, raw_x, raw_y) ==
    LET W == SCREEN_WIDTH
        H == SCREEN_HEIGHT
        mx == touch_device.max_x
        my == touch_device.max_y
    IN  IF orientation = 1
        THEN <<(raw_y * H) \div my, ((mx - raw_x) * W) \div mx>>
        ELSE IF orientation = 2
        THEN <<((mx - raw_x) * W) \div mx, ((my - raw_y) * H) \div my>>
        ELSE IF orientation = 3
        THEN <<((my - raw_y) * H) \div my, (raw_x * W) \div mx>>
        ELSE <<(raw_x * W) \div mx, (raw_y * H) \div my>>

\* the session's raw coordinates lie in the range the device declares
RawInRange ==
    /\ current_touch.start_x \in 0..touch_device.max_x
    /\ current_touch.end_x \in 0..touch_device.max_x
    /\ current_touch.start_y \in 0..touch_device.max_y
    /\ current_touch.end_y \in 0..touch_device.max_y

\* C11: an emitted swipe carries the transformed start, the transformed end and
\* the duration floor((end_time - start_time) * 1000) clamped to at least 0, so
\* its duration is never negative, also when end_time is before start_time.
C11_SwipeDurationClamped ==
    (pc = "returned" /\ recorded_commands # <<>> /\ recorded_commands[1].type = "swipe")
        => LET r == recorded_commands[1]
               floor_ms == (current_touch.end_time - current_touch.start_time) \div TicksPerMs
               clamped == IF floor_ms < 0 THEN 0 ELSE floor_ms
           IN  /\ r.command.fields = r.start_pos \o r.end_pos \o <<clamped>>
               /\ r.duration >= 0

\* C12: for raw coordinates within the device's range, every coordinate of an
\* emitted command lies on the screen: 0 <= x < width and 0 <= y < height.
C12_CoordinatesOnScreen ==
    (pc = "returned" /\ recorded_commands # <<>> /\ RawInRange)
        => LET r == recorded_commands[1] IN
           \A p \in {r.start_pos, r.end_pos} :
               /\ 0 <= p[1] /\ p[1] < SCREEN_WIDTH
               /\ 0 <= p[2] /\ p[2] < SCREEN_HEIGHT

\* C13: for raw coordinates within the device's range, the emitted endpoints are
\* the orientation table applied to raw/max, truncated, for the screen's
\* orientation, width and height.
C13_TransformByTable ==
    (pc = "returned" /\ recorded_commands # <<>> /\ RawInRange)
        => LET r == recorded_commands[1] IN
           /\ r.start_pos = TableTransform(SCREEN_ORIENTATION,
                                           current_touch.start_x, current_touch.start_y)
           /\ r.end_pos = TableTransform(SCREEN_ORIENTATION,
                                         current_touch.end_x, current_touch.end_y)

\* C14: with a device that declares an axis maximum of 0, classifying a session
\* ends in an error and never in a command.
C14_ZeroMaxIsError ==
    (pc # "call" /\ (touch_device.max_x = 0 \/ touch_device.max_y = 0))
        => (pc = "error" /\ recorded_commands = <<>>)

\* C15: scenario B.  On a fresh recorder, the touch-up of a touch that began
\* with its touch-down and whose X and Y were sampled at the middle of the
\* device's range (2048 of 4095) yields exactly one command, a tap at the
\* transformed centre of the screen.
C15_ScenarioB ==
    [][(/\ Handled /\ IsTouchUp(event')
        /\ recorded_commands = <<>>
        /\ current_touch.is_touching
        /\ first_signal_time = current_touch.start_time
        /\ current_touch.start_x = MidRawX /\ current_touch.end_x = MidRawX
        /\ current_touch.start_y = MidRawY /\ current_touch.end_y = MidRawY)
        => /\ Len(recorded_commands') = 1
           /\ recorded_commands'[1].type = "click"
           /\ recorded_commands'[1].command.fields =
                 TableTransform(SCREEN_ORIENTATION, MidRawX, MidRawY)]_vars

\* C16: scenario C.  On a fresh recorder, the touch-up, 300 ms after the
\* touch-down that began the touch, of a touch whose X went from 0 to the far
\* end of the range with Y at the middle yields exactly one command, a swipe of
\* about 300 ms between two different screen points.
C16_ScenarioC ==
    [][(/\ Handled /\ IsTouchUp(event')
        /\ recorded_commands = <<>>
        /\ current_touch.is_touching
        /\ first_signal_time = current_touch.start_time
        /\ current_touch.start_x = 0 /\ current_touch.end_x = TOUCH_MAX_X
        /\ current_touch.start_y = MidRawY /\ current_touch.end_y = MidRawY
        /\ event'.timestamp - current_touch.start_time = 300 * TicksPerMs)
        => /\ Len(recorded_commands') = 1
           /\ recorded_commands'[1].type = "swipe"
           /\ recorded_commands'[1].duration \in 290..310
           /\ recorded_commands'[1].start_pos # recorded_commands'[1].end_pos]_vars


\* ------------------------------------------------- properties of replay

IsCall(e) == e.kind \in {"tap", "swipe"}

IsSleep(e) == e.kind = "sleep"

IsStep(e) == IsCall(e) \/ IsSleep(e)

IsStart(e) == e.kind \in {"print_start_simple", "print_start_dedicated"}

IsOperation(op) == op.type # "comment"

\* the number of the replay that entry k of the log belongs to
RunOf(k) == Cardinality({j \in 1..k : IsStart(replay_log[j])})

\* where the replay announced by marker starts in the log, 0 if it did not run
StartOf(marker) ==
    IF \E j \in 1..Len(replay_log) : replay_log[j].kind = marker
    THEN CHOOSE j \in 1..Len(replay_log) : replay_log[j].kind = marker
    ELSE 0

\* the entries of the replay announced by marker, after the marker
RunLog(marker) ==
    IF StartOf(marker) = 0
    THEN <<>>
    ELSE LET ks == {k \in 1..Len(replay_log) : RunOf(k) = RunOf(StartOf(marker))}
         IN  [i \in 1..(Cardinality(ks) - 1) |-> replay_log[StartOf(marker) + i]]

SimpleLog == RunLog("print_start_simple")

DedicatedLog == RunLog("print_start_dedicated")

\* the call a record or operation asks for
ExpectedCall(item) ==
    IF item.type = "click"
    THEN [kind |-> "tap", args |-> <<item.command.fields[1], item.command.fields[2]>>]
    ELSE [kind |-> "swipe", args |-> item.command.fields]

\* the calls of log are those of the first commands of items, in their order,
\* once each
CallsFollow(log, items) ==
    LET calls == SelectSeq(log, IsCall)
    IN  /\ Len(calls) <= Len(items)
        /\ \A j \in 1..Len(calls) :
              [kind |-> calls[j].kind, args |-> calls[j].args] = ExpectedCall(items[j])

\* no sleep starts while another step is pending: of the calls and sleeps of
\* log, no two sleeps are adjacent
OneSleepPerCall(log) ==
    LET steps == SelectSeq(log, IsStep)
    IN  \A j \in 1..(Len(steps) - 1) : ~(IsSleep(steps[j]) /\ IsSleep(steps[j + 1]))

\* a sleep of the simple replay follows the report of a call that returned
SleepAfterReturn(log) ==
    \A k \in 1..Len(log) :
        IsSleep(log[k]) => k > 2 /\ log[k - 1].kind = "print_ok" /\ IsCall(log[k - 2])
                           /\ log[k - 2].ok

HaltedAt(k) ==
    /\ k < Len(replay_log)
    /\ replay_log[k + 1].kind = "print_failed"
    /\ \A j \in (k + 1)..Len(replay_log) :
          RunOf(j) = RunOf(k) => ~IsStep(replay_log[j])

KeepsLog ==
    /\ Len(replay_log') >= Len(replay_log)
    /\ SubSeq(replay_log', 1, Len(replay_log)) = replay_log

\* C17: replay halts at the first actuation failure.  Once a tap or swipe call
\* has returned false, the failure is printed next and the same replay makes
\* no further call and no further sleep; and what replay has done is never
\* taken back: the record of calls only grows.
C17_HaltsAtFirstFailure ==
    /\ [](\A k \in 1..Len(replay_log) :
            IsCall(replay_log[k]) /\ ~replay_log[k].ok => HaltedAt(k))
    /\ [][KeepsLog]_vars

\* a simple replay of several commands has ended on a failure before the last
C17_Witness ==
    /\ pc = "done"
    /\ \E k \in 1..Len(SimpleLog) : IsCall(SimpleLog[k]) /\ ~SimpleLog[k].ok
    /\ Len(SelectSeq(SimpleLog, IsCall)) < Len(recorded_commands)

\* C18: the count of executed operations that a replay reports when it ends is
\* the number of its actuation calls that returned true.
C18_CountIsSuccesses ==
    \A k \in 1..Len(replay_log) :
        replay_log[k].kind = "print_dedicated_done" =>
            replay_log[k].args[1] =
                Cardinality({j \in 1..k : /\ RunOf(j) = RunOf(k)
                                          /\ IsCall(replay_log[j])
                                          /\ replay_log[j].ok})

\* C19: replay is sequential and never retries.  The calls of a replay are
\* those its command sequence asks for (a tap through tap(x, y), a swipe
\* through swipe(x1, y1, x2, y2, duration) with the recorded arguments), in the
\* order of the sequence and once each, and a sleep begins only after the call
\* before it has returned.
C19_SequentialNoRetry ==
    /\ CallsFollow(SimpleLog, recorded_commands)
    /\ CallsFollow(DedicatedLog, SelectSeq(unified_timeline, IsOperation))
    /\ OneSleepPerCall(SimpleLog)
    /\ OneSleepPerCall(DedicatedLog)
    /\ SleepAfterReturn(SimpleLog)

\* a simple replay of several commands, a tap among them, has run to its end
C19_Witness ==
    /\ pc = "done"
    /\ Len(recorded_commands) > 1
    /\ Len(SelectSeq(SimpleLog, IsCall)) = Len(recorded_commands)
    /\ \E k \in 1..Len(SimpleLog) : SimpleLog[k].kind = "tap"
    /\ \E k \in 1..Len(SimpleLog) : IsSleep(SimpleLog[k])

\* C20: no sleep of replay is longer than 10000 ms: before a command recorded
\* more than 10000 ms after the one before it, replay sleeps the default.
C20_SleepNeverAboveLimit ==
    \A k \in 1..Len(replay_log) :
        IsSleep(replay_log[k]) => replay_log[k].args[1] <= 10000 * TicksPerMs

\* an iteration of the dedicated replay is about to run the operation at
\* replay_i, which is not the first command of the run
NextCommandIsLater ==
    /\ pc = "loop"
    /\ Head(todo) = "dedicated"
    /\ IsOperation(unified_timeline[replay_i])
    /\ executed_count > 0

\* the time recorded between the command about to run and the command before it
IntervalBefore == unified_timeline[replay_i].timestamp - last_time

\* the entries a step has added to the log
Added == SubSeq(replay_log', Len(replay_log) + 1, Len(replay_log'))

\* C21: before a command, not the first, that was recorded less than 100 ms
\* after the command before it (50 ms, say), replay sleeps 100 ms.
C21_ShortIntervalSleeps100 ==
    [][NextCommandIsLater /\ IntervalBefore < 100 * TicksPerMs
         => \E k \in 1..Len(Added) :
               IsSleep(Added[k]) /\ Added[k].args[1] = 100 * TicksPerMs]_vars

\* C22: every command appended during capture, other than the first, records
\* interval_before_ms, the time since the command before it as it was measured
\* (a number of milliseconds, never clamped at capture).
C22_RecordsRawInterval ==
    \A i \in 2..Len(recorded_commands) :
        /\ "interval_before_ms" \in DOMAIN recorded_commands[i]
        /\ recorded_commands[i].interval_before_ms >= 0

\* C23: when capture ends, by cancellation or by the end of the event stream,
\* no further line is read and the command sequence stays exactly the commands
\* classified before the end: a touch still open is dropped, never turned into
\* a command.
C23_EndDiscardsOpenTouch ==
    [][pc' = "stopped" => (recorded_commands' = recorded_commands /\ event' = event)]_vars

\* capture has ended after one command, with a touch open whose coordinates
\* are all known
C23_Witness ==
    /\ pc = "stopped"
    /\ Len(recorded_commands) = 1
    /\ current_touch.is_touching
    /\ \A f \in SixFields \ {"end_time"} : Truthy(current_touch[f])

\* C24: the command sequence is append-only during capture and read-only
\* during replay.  A step of the recording leaves every command appended
\* before unchanged and at its index; a step of a replay, whether the replay
\* succeeds, fails or is declined, leaves the sequence as it was.
C24_AppendOnlyThenReadOnly ==
    [][/\ pc = "record" =>
            /\ Len(recorded_commands') >= Len(recorded_commands)
            /\ SubSeq(recorded_commands', 1, Len(recorded_commands)) = recorded_commands
       /\ pc \in {"menu", "confirm", "loop"} => recorded_commands' = recorded_commands]_vars

\* two different commands were recorded, and a replay of them has made a call
\* and ended
C24_Witness ==
    /\ pc = "done"
    /\ Len(recorded_commands) = 2
    /\ recorded_commands[1] # recorded_commands[2]
    /\ \E k \in 1..Len(replay_log) : IsCall(replay_log[k])

\* -------------------------------------------------- properties of the decoder

\* where type, code and value stand in a line of n fields
FieldPositions(n) == IF n = 3 THEN {1, 2, 3} ELSE {2, 3, 4}

\* a line is malformed when it has fewer than 3 fields, or a field that is not
\* hexadecimal where type, code or value stands
Malformed(l) ==
    \/ Len(l.parts) < 3
    \/ \E i \in FieldPositions(Len(l.parts)) : ~l.parts[i].hex

\* C25: for a malformed line (fewer than 3 fields once the bracketed time is
\* removed, or a field that is not hexadecimal in the place of type, code or
\* value) the decoder returns None, and the capture loop leaves the touch and
\* the command sequence as they were.
C25_MalformedLineSkipped ==
    [][(pc' = "handled" /\ Malformed(line'))
         => /\ event_data' = <<>>
            /\ UNCHANGED <<current_touch, recorded_commands>>]_vars

\* C26: for a well-formed line the decoder gives back the numbers its fields
\* write: the three fields of a 3-field line in the order type, code, value;
\* fields 2 to 4 of a longer line, the first being the device path; a
\* bracketed time in front changes nothing.
C26_FieldsRecovered ==
    (pc = "parsed" /\ ~Malformed(line))
        => LET at == IF Len(line.parts) = 3 THEN 0 ELSE 1 IN
           /\ event_data # <<>>
           /\ event_data[1].type = line.parts[at + 1].value
           /\ event_data[1].code = line.parts[at + 2].value
           /\ event_data[1].value = line.parts[at + 3].value
           /\ Len(line.parts) > 3 => event_data[1].device = RStripColon(line.parts[1].text)

\* a line with a time in front, a device path and the largest 8-digit value
\* was decoded
C26_Witness ==
    /\ pc = "parsed"
    /\ line.stamp # <<>>
    /\ Len(line.parts) = 4
    /\ ~line.parts[1].hex
    /\ ~Malformed(line)
    /\ event_data # <<>>
    /\ event_data[1].value = Number(FALSE, HALF - 1, HALF - 1)

\* a number is a signed 32-bit integer
InInt32(number) ==
    IF number.neg
    THEN number.high < HALF \div 2 \/ (number.high = HALF \div 2 /\ number.low = 0)
    ELSE number.high < HALF \div 2

\* C27: the value of a decoded event is a signed 32-bit integer, and the field
\* ffffffff decodes to -1.
C27_ValueIsInt32 ==
    (pc = "parsed" /\ event_data # <<>>)
        => LET at == IF Len(line.parts) = 3 THEN 0 ELSE 1 IN
           /\ InInt32(event_data[1].value)
           /\ line.parts[at + 3].text = <<"f", "f", "f", "f", "f", "f", "f", "f">>
                 => event_data[1].value = Number(TRUE, 0, 1)

\* ------------------------------------------- properties of device discovery

\* a block qualifies when it declares a maximum for both multi-touch axes
Qualifies(block) == {"ABS_MT_POSITION_X", "ABS_MT_POSITION_Y"} \subseteq block.axes

QualifyingBlocks == SelectSeq(dump, Qualifies)

\* every block of the dump declares both multi-touch axes or no axis at all
PlainDump == \A i \in 1..Len(dump) : Qualifies(dump[i]) \/ dump[i].axes = {}

\* C28: discovery returns the first qualifying block in dump order, whatever
\* the names and path numbers, with the two maxima the block declares: for a
\* plain block followed by a block with both maxima 4095 at eventX, it is
\* {eventX, 4095, 4095}.
C28_FirstQualifyingBlockWins ==
    (pc = "listed" /\ PlainDump /\ QualifyingBlocks # <<>>)
        => /\ devices # <<>>
           /\ devices[1].path = QualifyingBlocks[1].path
           /\ {"max_x", "max_y"} \subseteq DOMAIN devices[1]
           /\ devices[1].max_x = QualifyingBlocks[1].max
           /\ devices[1].max_y = QualifyingBlocks[1].max

\* C29: a block is taken for a touch device exactly when it declares maxima
\* for both multi-touch axes: not with one of the two, not with single-touch
\* axes only, not without axes.
C29_QualifiesIffBothAxes ==
    pc = "listed"
        => \A i \in 1..Len(dump) :
              (\E k \in 1..Len(devices) : devices[k].path = dump[i].path)
                 <=> Qualifies(dump[i])

\* C30: when no block of the dump qualifies, discovery returns no device.
C30_NoneQualifiesGivesNull ==
    (pc \in {"listed", "scanned"} /\ QualifyingBlocks = <<>>) => devices = <<>>

\* C31: when the discovery call to the external interface times out, raises or
\* exits non-zero, discovery reports "not found" (no device) to its caller: it
\* never puts a default device or device list in the place of the failed call.
C31_FailedCallGivesNotFound == pc = "failed" => devices = <<>>

\* ------------------------------------------------------------------ key presses

SleepsAfter_always(i, times) == TRUE

\* "if i < times - 1", i counting from 0
SleepsAfter(i, times) == i < times - 1

\* the turns i, i + 1, ... of "for i in range(times)": in turn i the command
\* "adb shell input keyevent --longpress {keycode}", for which
\* execute_adb_command returns outcomes[i + 1], then "time.sleep(delay)"
RECURSIVE KeyLoop(_, _, _, _, _)
KeyLoop(keycode, times, delay, outcomes, i) ==
    IF i >= times THEN <<>>
    ELSE <<[kind |-> "keyevent", keycode |-> keycode, ok |-> outcomes[i + 1]]>>
         \o (IF SleepsAfter(i, times) THEN <<[kind |-> "sleep", ms |-> delay]>> ELSE <<>>)
         \o KeyLoop(keycode, times, delay, outcomes, i + 1)

\* press_key_optimized: the commands and sleeps it makes and what it returns;
\* connected is what check_adb_connection returns for its "adb devices"
press_key_optimized(keycode, times, delay, connected, outcomes) ==
    LET check == <<[kind |-> "devices", ok |-> connected]>>
        success_count == Cardinality({i \in 1..times : outcomes[i]})
    IN  IF ~connected
        THEN [log |-> check, result |-> FALSE]
        ELSE [log    |-> check \o KeyLoop(keycode, times, delay, outcomes, 0),
              result |-> success_count = times]

\* the calls made: a keycode of KEYMAP (W, A, S, D, J), a number of presses, and
\* a delay in ms, KEY_INTERVAL or another
KeyArgs ==
    [keycode : {"51", "29", "47", "32", "38"}, times : 0..MaxTimes,
     delay : {100, KEY_INTERVAL, 500}]

InitKeys ==
    /\ current_touch = IdleTouch
    /\ recorded_commands = <<>>
    /\ event = NoEvent
    /\ pc = "keys"
    /\ first_signal_time = None
    /\ touch_device = TestDevice
    /\ ReplayIdle
    /\ InputIdle
    /\ call_args \in KeyArgs
    /\ adb_log = <<>>
    /\ system = EmptySystem
    /\ result = <<>>
    /\ RecorderIdle

\* press_key(keycode, times, delay): "return press_key_optimized(keycode, times,
\* delay)", with the device connected or not and each key event succeeding or not
press_key ==
    /\ pc = "keys"
    /\ \E connected \in BOOLEAN, outcomes \in [1..call_args.times -> BOOLEAN] :
        LET run == press_key_optimized(call_args.keycode, call_args.times, call_args.delay,
                                       connected, outcomes)
        IN  /\ adb_log' = run.log
            /\ result' = <<run.result>>
    /\ pc' = "pressed"
    /\ UNCHANGED <<captureVars, touch_device, replayVars, decodeVars, discoveryVars, call_args, system,
                   active_touches,
                   operation_sequence, dedicated_touch, current_swipe>>

SpecKeys == InitKeys /\ [][press_key]_vars

\* ------------------------------------------------------ properties of key presses

Presses == SelectSeq(adb_log, LAMBDA entry : entry.kind = "keyevent")

Pauses == SelectSeq(adb_log, LAMBDA entry : entry.kind = "sleep")

\* n key events, n - 1 sleeps and none after the last event, and true exactly
\* when every event succeeded
PressedAll ==
    /\ Len(Presses) = call_args.times
    /\ Len(Pauses) = call_args.times - 1
    /\ adb_log[Len(adb_log)].kind = "keyevent"
    /\ \A i \in 1..Len(adb_log) : adb_log[i].kind = "sleep" => adb_log[i].ms = call_args.delay
    /\ result[1] <=> \A i \in 1..Len(Presses) : Presses[i].ok

\* the connection check of the call passed
Connected == adb_log # <<>> /\ adb_log[1].kind = "devices" /\ adb_log[1].ok

\* C32 as stated: press_key(keycode, n, delay) with n >= 1 issues exactly n
\* long-press key events, going on after a failed one, sleeps n - 1 times and
\* never after the last event, and returns true exactly when all n succeeded.
C32_AlwaysPressesAll == (pc = "pressed" /\ call_args.times >= 1) => PressedAll

\* C32: when the connection check passes, press_key(keycode, n, delay) with
\* n >= 1 issues exactly n long-press key events, going on after a failed one,
\* sleeps n - 1 times for the delay and never after the last event, and returns
\* true exactly when all n succeeded; when the check fails it issues no key
\* event, does not sleep and returns false.
C32_PressesAllWhenConnected ==
    (pc = "pressed" /\ call_args.times >= 1)
        => IF Connected THEN PressedAll
           ELSE Presses = <<>> /\ Pauses = <<>> /\ result = <<FALSE>>

\* three presses with the second one failing
C32_Witness ==
    /\ pc = "pressed"
    /\ call_args.times = 3
    /\ Connected
    /\ Presses[1].ok /\ ~Presses[2].ok /\ Presses[3].ok
    /\ Len(Pauses) = 2
    /\ result = <<FALSE>>

\* ------------------------------------------------------------ system components

\* a constructor that raises instead of returning an object
Raised == 0

\* what the three classes do when initialize_system uses them: the object
\* DeviceState() returns and what its initialize_all() returns, and the object
\* ADBExecutor(...) and TouchEventRecorder(...) return unless they raise
Environments ==
    [DeviceState : 1..MaxObjects, initialize_all : BOOLEAN,
     ADBExecutor : (1..MaxObjects) \cup {Raised},
     TouchEventRecorder : (1..MaxObjects) \cup {Raised}]

\* initialize_system: device state, then executor, then recorder; it stops at
\* the first stage that fails and returns whether all three succeeded
initialize_system_of(s, env) ==
    LET stage1 == [s EXCEPT !.device_state = env.DeviceState]
        stage2 == [stage1 EXCEPT !.adb_executor = env.ADBExecutor]
        stage3 == [stage2 EXCEPT !.touch_recorder = env.TouchEventRecorder,
                                 !.is_initialized = TRUE]
    IN  IF ~env.initialize_all THEN [system |-> stage1, value |-> FALSE]
        ELSE IF env.ADBExecutor = Raised THEN [system |-> stage1, value |-> FALSE]
        ELSE IF env.TouchEventRecorder = Raised THEN [system |-> stage2, value |-> FALSE]
        ELSE [system |-> stage3, value |-> TRUE]

Getter_when_set(s, component) ==
    IF s[component] = None
    THEN [raised |-> "RuntimeError", value |-> None]
    ELSE [raised |-> "", value |-> s[component]]

\* get_device_state, get_adb_executor, get_touch_recorder: the component, or
\* RuntimeError("系统未初始化") when the system is not initialised
Getter(s, component) ==
    IF ~s.is_initialized
    THEN [raised |-> "RuntimeError", value |-> None]
    ELSE [raised |-> "", value |-> s[component]]

InitSystem ==
    /\ current_touch = IdleTouch
    /\ recorded_commands = <<>>
    /\ event = NoEvent
    /\ pc = "system"
    /\ first_signal_time = None
    /\ touch_device = TestDevice
    /\ ReplayIdle
    /\ InputIdle
    /\ call_args \in Environments
    /\ adb_log = <<>>
    /\ system = EmptySystem
    /\ result = <<>>
    /\ RecorderIdle

initialize_system ==
    /\ pc = "system"
    /\ LET done == initialize_system_of(system, call_args)
       IN  /\ system' = done.system
           /\ result' = <<[function |-> "initialize_system", raised |-> "",
                           value |-> done.value]>>
    /\ pc' = "initialized"
    /\ UNCHANGED <<captureVars, touch_device, replayVars, decodeVars, discoveryVars,
                   call_args, adb_log, active_touches,
                   operation_sequence, dedicated_touch, current_swipe>>

\* one of the three getters is called
get_component ==
    /\ pc \in {"system", "initialized"}
    /\ \E getter \in {<<"get_device_state", "device_state">>,
                       <<"get_adb_executor", "adb_executor">>,
                       <<"get_touch_recorder", "touch_recorder">>} :
        LET got == Getter(system, getter[2])
        IN  result' = <<[function |-> getter[1], raised |-> got.raised,
                         value |-> got.value]>>
    /\ pc' = "got"
    /\ UNCHANGED <<captureVars, touch_device, replayVars, decodeVars, discoveryVars,
                   call_args, adb_log, system, active_touches,
                   operation_sequence, dedicated_touch, current_swipe>>

NextSystem ==
    \/ initialize_system
    \/ get_component

SpecSystem == InitSystem /\ [][NextSystem]_vars

\* --------------------------------------------- properties of system components

\* the stage of initialize_system that failed in the environment, 0 for none
FailedStage ==
    IF ~call_args.initialize_all THEN 1
    ELSE IF call_args.ADBExecutor = Raised THEN 2
    ELSE IF call_args.TouchEventRecorder = Raised THEN 3
    ELSE 0

\* the component of each stage, as the environment would create it
Created ==
    <<call_args.DeviceState, call_args.ADBExecutor, call_args.TouchEventRecorder>>

Components == <<system.device_state, system.adb_executor, system.touch_recorder>>

\* initialize_system has returned (a getter may have followed it)
Initialised == pc = "initialized" \/ (pc = "got" /\ system # EmptySystem)

\* a getter called on a system that is not initialised raised RuntimeError
GettersGuarded ==
    (pc = "got" /\ ~system.is_initialized) => result[1].raised = "RuntimeError"

C34_SecondTouchDownKeepsStart ==
    [][(Handled /\ IsTouchDown(event') /\ current_touch.is_touching)
        => /\ current_touch'.start_time = current_touch.start_time
           /\ current_touch'.start_x = current_touch.start_x
           /\ current_touch'.start_y = current_touch.start_y]_vars

\* a set start coordinate comes with an open touch and a set end coordinate
StartNeedsOpenTouch ==
    /\ current_touch.start_x # None
          => (current_touch.is_touching /\ current_touch.end_x # None)
    /\ current_touch.start_y # None
          => (current_touch.is_touching /\ current_touch.end_y # None)

\* C35: in every reachable state of simple capture a set start coordinate implies
\* an open touch and a set end coordinate, for X and for Y; and a sample that
\* arrives while is_touching is false changes nothing but end_x or end_y.
C35_StartImpliesOpenTouch ==
    /\ []StartNeedsOpenTouch
    /\ [][(Handled /\ IsSample(event') /\ ~current_touch.is_touching)
            => \/ current_touch' = [current_touch EXCEPT !.end_x = event'.value]
               \/ current_touch' = [current_touch EXCEPT !.end_y = event'.value]]_vars

\* an open touch whose X start is set and whose X has moved since, after a Y
\* sample that came before the touch-down and is no start
C35_Witness ==
    /\ current_touch.is_touching
    /\ current_touch.start_x # None
    /\ current_touch.end_x # current_touch.start_x
    /\ current_touch.start_y = None
    /\ current_touch.end_y # None

\* C36: each touch-up appends at most one command, and a command is appended
\* only by a touch-up that closes a touch opened by a touch-down since the last
\* reset, so the commands never outnumber such touch-ups; a touch-up received
\* while no touch is open appends nothing and leaves the tracker idle.
C36_AtMostOneCommandPerTouchUp ==
    [][/\ Len(recorded_commands') <= Len(recorded_commands) + 1
       /\ recorded_commands' # recorded_commands
             => /\ Handled /\ IsTouchUp(event')
                /\ current_touch.is_touching
                /\ current_touch.start_time # None
                /\ SubSeq(recorded_commands', 1, Len(recorded_commands))
                      = recorded_commands
       /\ (Handled /\ IsTouchUp(event') /\ ~current_touch.is_touching)
             => /\ recorded_commands' = recorded_commands
                /\ current_touch' = IdleTouch]_vars

\* two touches were recorded, the second by the touch-up just handled
C36_Witness ==
    /\ Len(recorded_commands) = 2
    /\ IsTouchUp(event)
    /\ current_touch = IdleTouch

\* ------------------------------------------------------------ advanced capture

\* the lines getevent writes for a touch screen: a tracking id (a finger number,
\* or ffffffff when the finger leaves), an X or Y position, BTN_TOUCH 1 or 0
TouchLines ==
    LET field(text) == [text |-> text]
        abs == <<"0", "0", "0", "3">>
        key == <<"0", "0", "0", "1">>
        ids == {<<"0", "0", "0", "0", "0", "0", "0", "0">>,
                <<"0", "0", "0", "0", "0", "0", "0", "1">>,
                <<"f", "f", "f", "f", "f", "f", "f", "f">>}
        positions == {<<"0", "0", "0", "0", "0", "0", "0", "1">>,
                      <<"0", "0", "0", "0", "0", "0", "0", "8">>,
                      <<"0", "0", "0", "0", "0", "0", "1", "0">>}
        parts == ({<<abs, <<"0", "0", "3", "9">>, v>> : v \in ids}
                  \cup {<<abs, c, v>> : c \in {<<"0", "0", "3", "5">>, <<"0", "0", "3", "6">>},
                                       v \in positions}
                  \cup {<<key, <<"0", "1", "4", "a">>, <<"0", "0", "0", "0", "0", "0", "0", v>>>> :
                            v \in {"0", "1"}})
    IN  {[stamp |-> <<>>, parts |-> <<field(p[1]), field(p[2]), field(p[3])>>] : p \in parts}

\* time.time() when the next line is parsed, in ms: gap after the last
RecorderNow(gap) == (IF event_data = <<>> THEN 0 ELSE event_data[1].timestamp) + gap

\* "max(self.active_touches.keys(), key=... .get('last_update', 0))": the place
\* of the touch updated last, the first of them in dict order
LatestTouch(touches) ==
    CHOOSE i \in 1..Len(touches) :
        /\ \A j \in 1..Len(touches) : touches[j].last_update <= touches[i].last_update
        /\ \A j \in 1..(i - 1) : touches[j].last_update < touches[i].last_update

\* add_operation_point for a touch, after the coordinate conversion "screen_x =
\* raw_y, screen_y = 1080 - raw_x"
OperationPoint(action, touch_data, timestamp) ==
    [timestamp |-> timestamp, action |-> action, finger_id |-> touch_data.finger_id,
     x |-> touch_data.raw_y, y |-> SCREEN_Y_BASE - touch_data.raw_x,
     raw_x |-> touch_data.raw_x, raw_y |-> touch_data.raw_y]

\* check_and_sample_moves, from the i-th touch on, with should_sample
RECURSIVE check_and_sample_moves(_, _, _, _)
check_and_sample_moves(touches, sequence, current_time, i) ==
    IF i > Len(touches) THEN [touches |-> touches, sequence |-> sequence]
    ELSE LET touch_data == touches[i]
             points == SelectSeq(sequence, LAMBDA p : p.finger_id = touch_data.finger_id)
             last_point == points[Len(points)]
             dx == touch_data.current_x - last_point.x
             dy == touch_data.current_y - last_point.y
             should_sample ==
                 /\ ~(current_time - touch_data.last_sample_time < sample_interval)
                 /\ points # <<>>
                       => ~(dx * dx + dy * dy < min_move_distance * min_move_distance)
         IN  IF /\ touch_data.current_x # None
                /\ touch_data.current_y # None
                /\ ~touch_data.ending
                /\ should_sample
             THEN check_and_sample_moves(
                      [touches EXCEPT ![i].last_sample_time = current_time],
                      Append(sequence, OperationPoint("move", touch_data, current_time)),
                      current_time, i + 1)
             ELSE check_and_sample_moves(touches, sequence, current_time, i + 1)

\* the BTN_TOUCH press branch, from the i-th touch on: a 'down' point for every
\* touch with both coordinates and none yet
RECURSIVE RecordDowns(_, _, _, _)
RecordDowns(touches, sequence, current_time, i) ==
    IF i > Len(touches) THEN [touches |-> touches, sequence |-> sequence]
    ELSE IF /\ touches[i].raw_x # None
            /\ touches[i].raw_y # None
            /\ ~touches[i].has_down_event
    THEN RecordDowns([touches EXCEPT ![i].last_sample_time = current_time,
                                     ![i].has_down_event = TRUE],
                     Append(sequence, OperationPoint("down", touches[i], current_time)),
                     current_time, i + 1)
    ELSE RecordDowns(touches, sequence, current_time, i + 1)

\* process_advanced_touch_event: active_touches and operation_sequence after it
process_advanced_touch_event(e, touches, sequence) ==
    LET current_time == e.timestamp
        same == [touches |-> touches, sequence |-> sequence]
        latest == LatestTouch(touches)
        removed == [i \in 1..(Len(touches) - 1) |->
                        IF i < latest THEN touches[i] ELSE touches[i + 1]]
        fresh == [start_time |-> current_time, current_x |-> None, current_y |-> None,
                  raw_x |-> None, raw_y |-> None, last_sample_time |-> 0,
                  last_update |-> current_time, ending |-> FALSE,
                  finger_id |-> e.value, has_down_event |-> FALSE]
        known == {i \in 1..Len(touches) : touches[i].finger_id = e.value}
        moved(raw, current) ==
            IF touches # <<>> /\ ~touches[latest].ending
            THEN [same EXCEPT !.touches[latest][raw] = Plain(e.value),
                              !.touches[latest][current] = Plain(e.value),
                              !.touches[latest].last_update = current_time]
            ELSE same
        handled ==
            IF e.type = Small(EV_ABS) THEN
                IF e.code = Small(ABS_MT_TRACKING_ID) THEN
                    IF e.value = Number(TRUE, 0, 1)
                    THEN IF /\ touches # <<>>
                            /\ touches[latest].raw_x # None
                            /\ touches[latest].raw_y # None
                         THEN [touches  |-> removed,
                               sequence |-> Append(sequence,
                                   OperationPoint("up", touches[latest], current_time))]
                         ELSE same
                    ELSE IF known # {}
                    THEN [same EXCEPT !.touches[CHOOSE i \in known : TRUE] = fresh]
                    ELSE [same EXCEPT !.touches = Append(touches, fresh)]
                ELSE IF e.code = Small(ABS_MT_POSITION_X) THEN moved("raw_x", "current_x")
                ELSE IF e.code = Small(ABS_MT_POSITION_Y) THEN moved("raw_y", "current_y")
                ELSE same
            ELSE IF e.type = Small(EV_KEY) /\ e.code = Small(BTN_TOUCH) THEN
                IF e.value = Small(1) THEN RecordDowns(touches, sequence, current_time, 1)
                ELSE IF e.value = Small(0)
                THEN [same EXCEPT !.touches =
                         [i \in 1..Len(touches) |-> [touches[i] EXCEPT !.ending = TRUE]]]
                ELSE same
            ELSE same
    IN  check_and_sample_moves(handled.touches, handled.sequence, current_time, 1)

InitAdvanced ==
    /\ current_touch = IdleTouch
    /\ recorded_commands = <<>>
    /\ event = NoEvent
    /\ pc = "advanced"
    /\ first_signal_time = None
    /\ touch_device = TestDevice
    /\ ReplayIdle
    /\ InputIdle
    /\ OtherIdle

\* one turn of the loop of listen_advanced_touch_events: a line is read, parsed
\* and, "if event_data", handed to process_advanced_touch_event
listen_advanced_touch_events ==
    /\ pc = "advanced"
    /\ RecorderNow(SceneGapMs) <= RecMaxEvents * SceneGapMs
    /\ \E l \in TouchLines :
        /\ line' = l
        /\ event_data' = Decoded(l, RecorderNow(SceneGapMs))
        /\ LET after == process_advanced_touch_event(event_data'[1], active_touches,
                                                     operation_sequence)
           IN  IF event_data' # <<>>
               THEN /\ active_touches' = after.touches
                    /\ operation_sequence' = after.sequence
               ELSE UNCHANGED <<active_touches, operation_sequence>>
    /\ UNCHANGED <<captureVars, pc, touch_device, replayVars, discoveryVars, call_args, adb_log, system, result,
                   dedicated_touch, current_swipe>>

SpecAdvanced == InitAdvanced /\ [][listen_advanced_touch_events]_vars

\* ------------------------------------------------- properties of advanced capture

\* the line read is a tracking-id event whose raw value field is ffffffff
ReleaseLine(l) ==
    /\ l.parts # <<>>
    /\ l.parts[2].text = <<"0", "0", "3", "9">>
    /\ l.parts[3].text = <<"f", "f", "f", "f", "f", "f", "f", "f">>

\* the touch updated last has both coordinates
LatestKnown ==
    /\ active_touches # <<>>
    /\ active_touches[LatestTouch(active_touches)].raw_x # None
    /\ active_touches[LatestTouch(active_touches)].raw_y # None

\* C37: in advanced capture a tracking-id release (ABS_MT_TRACKING_ID with raw
\* field ffffffff) that follows a finger whose X and Y are known removes the
\* finger updated last from active_touches and appends an 'up' point for it, so
\* that a finger with a 'down' point that is released has an 'up' point too.
C37_ReleaseAppendsUp ==
    [][(line' # line /\ ReleaseLine(line') /\ LatestKnown)
        => LET released == active_touches[LatestTouch(active_touches)].finger_id
           IN  /\ \A i \in 1..Len(active_touches') :
                     active_touches'[i].finger_id # released
               /\ \E i \in 1..Len(operation_sequence') :
                     /\ i > Len(operation_sequence)
                     /\ operation_sequence'[i].action = "up"
                     /\ operation_sequence'[i].finger_id = released]_vars

\* ----------------------------------------------------------- dedicated capture

EnsureEndPoint_skipped(points, end_point) == points

\* "if self.current_swipe['points'][-1][:2] != (screen_x, screen_y): append"
EnsureEndPoint(points, end_point) ==
    IF <<points[Len(points)][1], points[Len(points)][2]>> # <<end_point[1], end_point[2]>>
    THEN Append(points, end_point)
    ELSE points

SegmentDuration_raw(start_time, end_time) == end_time - start_time

\* "segment_duration = max(int((end_time - start_time) * 1000), 50)", times in ms
SegmentDuration(start_time, end_time) ==
    IF end_time - start_time > MIN_SEGMENT_MS THEN end_time - start_time ELSE MIN_SEGMENT_MS

\* handle_touch_end: the timeline after the touch swipe ends at (screen_x,
\* screen_y); points are <<x, y, time>>
handle_touch_end(swipe, timeline, screen_x, screen_y, timestamp) ==
    LET points == EnsureEndPoint(swipe.points, <<screen_x, screen_y, timestamp>>)
        total2 == Distance2(<<swipe.start_x, swipe.start_y>>, <<screen_x, screen_y>>)
        \* the comments that open and close a long swipe, their text in English
        marker(text, time) ==
            [type |-> "comment", command |-> [prefix |-> text, fields |-> <<>>],
             timestamp |-> time]
        segment(i) ==
            LET duration == SegmentDuration(points[i][3], points[i + 1][3])
            IN  [type |-> "swipe",
                 command |-> [prefix |-> "SWIPE:",
                              fields |-> <<points[i][1], points[i][2],
                                           points[i + 1][1], points[i + 1][2], duration>>],
                 timestamp |-> points[i][3],
                 duration |-> duration,
                 distance2 |-> Distance2(<<points[i][1], points[i][2]>>,
                                         <<points[i + 1][1], points[i + 1][2]>>),
                 segment_index |-> i,
                 total_segments |-> Len(points) - 1,
                 start_pos |-> <<points[i][1], points[i][2]>>,
                 end_pos |-> <<points[i + 1][1], points[i + 1][2]>>]
        tap == [type |-> "click",
                command |-> [prefix |-> "", fields |-> <<swipe.start_x, swipe.start_y>>],
                timestamp |-> swipe.start_time,
                duration |-> timestamp - swipe.start_time,
                distance2 |-> total2,
                start_pos |-> <<swipe.start_x, swipe.start_y>>,
                end_pos |-> <<screen_x, screen_y>>]
    IN  IF total2 >= SWIPE_THRESHOLD_PX * SWIPE_THRESHOLD_PX
        THEN IF Len(points) >= 2
             THEN timeline
                  \o <<marker("# === long swipe begins ===", swipe.start_time)>>
                  \o [i \in 1..(Len(points) - 1) |-> segment(i)]
                  \o <<marker("# === long swipe ends ===", timestamp)>>
             ELSE timeline
        ELSE Append(timeline, tap)

InitDedicated ==
    /\ current_touch = IdleTouch
    /\ recorded_commands = <<>>
    /\ event = NoEvent
    /\ pc = "dedicated"
    /\ first_signal_time = None
    /\ touch_device = TestDevice
    /\ ReplayIdle
    /\ InputIdle
    /\ OtherIdle

\* one turn of the loop of listen_dedicated_touch_events on a position or
\* BTN_TOUCH line, with handle_touch_start and handle_touch_move; the recording
\* mode is 'swipe'
listen_dedicated_touch_events ==
    /\ pc = "dedicated"
    /\ RecorderNow(DedGapMs) <= DedMaxEvents * DedGapMs
    /\ \E l \in {t \in TouchLines : t.parts[2].text # <<"0", "0", "3", "9">>} :
      \E e \in {Decoded(l, RecorderNow(DedGapMs))[1]} :
        LET current_time == e.timestamp
            is_abs(code) == e.type = Small(EV_ABS) /\ e.code = Small(code)
            is_key(value) ==
                e.type = Small(EV_KEY) /\ e.code = Small(BTN_TOUCH) /\ e.value = Small(value)
            read == IF is_abs(ABS_MT_POSITION_X)
                    THEN [dedicated_touch EXCEPT !.current_raw_x = Plain(e.value)]
                    ELSE IF is_abs(ABS_MT_POSITION_Y)
                    THEN [dedicated_touch EXCEPT !.current_raw_y = Plain(e.value)]
                    ELSE dedicated_touch
            known == read.current_raw_x # None /\ read.current_raw_y # None
            screen_x == read.current_raw_y
            screen_y == SCREEN_Y_BASE - read.current_raw_x
            starts == is_key(1) /\ known
            ends == is_key(0) /\ read.is_touching /\ known
            keyed == IF starts
                     THEN [read EXCEPT !.is_touching = TRUE, !.last_sample_time = current_time]
                     ELSE IF ends THEN [read EXCEPT !.is_touching = FALSE]
                     ELSE read
            started == IF starts
                       THEN <<[start_time |-> current_time, start_x |-> screen_x,
                               start_y |-> screen_y,
                               points |-> <<<<screen_x, screen_y, current_time>>>>]>>
                       ELSE IF ends THEN <<>>
                       ELSE current_swipe
            moves == /\ keyed.is_touching
                     /\ known
                     /\ current_time - keyed.last_sample_time >= swipe_sample_interval
            last_point == started[1].points[Len(started[1].points)]
            far == Distance2(<<screen_x, screen_y>>, <<last_point[1], last_point[2]>>)
                       >= min_swipe_distance * min_swipe_distance
        IN  /\ line' = l
            /\ event_data' = <<e>>
            /\ dedicated_touch' =
                  IF moves THEN [keyed EXCEPT !.last_sample_time = current_time] ELSE keyed
            /\ current_swipe' =
                  IF moves /\ started # <<>> /\ far
                  THEN <<[started[1] EXCEPT
                             !.points = Append(@, <<screen_x, screen_y, current_time>>)]>>
                  ELSE started
            /\ unified_timeline' =
                  IF ends /\ current_swipe # <<>>
                  THEN handle_touch_end(current_swipe[1], unified_timeline,
                                        screen_x, screen_y, current_time)
                  ELSE unified_timeline
    /\ UNCHANGED <<captureVars, pc, touch_device, todo, replay_i, last_time, executed_count,
                   replay_log, discoveryVars, call_args, adb_log, system, result, active_touches, operation_sequence>>

SpecDedicated == InitDedicated /\ [][listen_dedicated_touch_events]_vars

\* ------------------------------------------------ properties of dedicated capture

\* the line just read is BTN_TOUCH with value 0
TouchUpRead ==
    /\ line' # line \/ event_data' # event_data
    /\ event_data'[1].type = Small(EV_KEY)
    /\ event_data'[1].code = Small(BTN_TOUCH)
    /\ event_data'[1].value = Small(0)

\* the entries the step appends to the timeline
AddedEntries ==
    SubSeq(unified_timeline', Len(unified_timeline) + 1, Len(unified_timeline'))

AddedSegments == SelectSeq(AddedEntries, LAMBDA entry : entry.type = "swipe")

\* where the touch is when it ends, on the screen
TouchUpPoint ==
    <<dedicated_touch'.current_raw_y, SCREEN_Y_BASE - dedicated_touch'.current_raw_x>>

\* C38: the swipe segments generated for one touch form a contiguous chain: the
\* first starts at the touch-start point, the last ends at the touch-up point,
\* each next one starts where the one before ends, segment_index runs 1 to
\* total_segments without gaps, and every duration is at least 50 ms.
C38_SegmentsFormChain ==
    [][(TouchUpRead /\ AddedSegments # <<>>)
        => LET segments == AddedSegments
               n == Len(segments)
           IN  /\ current_swipe # <<>>
               /\ segments[1].start_pos = <<current_swipe[1].start_x, current_swipe[1].start_y>>
               /\ segments[n].end_pos = TouchUpPoint
               /\ \A i \in 1..(n - 1) : segments[i + 1].start_pos = segments[i].end_pos
               /\ \A i \in 1..n :
                     /\ segments[i].segment_index = i
                     /\ segments[i].total_segments = n
                     /\ segments[i].duration >= 50
                     /\ segments[i].command.fields
                           = segments[i].start_pos \o segments[i].end_pos
                             \o <<segments[i].duration>>]_vars

\* a touch that gave two segments, the first lasting less than 50 ms
C38_Witness ==
    \E i \in 1..Len(unified_timeline) :
        /\ unified_timeline[i].type = "swipe"
        /\ unified_timeline[i].total_segments = 2
        /\ unified_timeline[i].segment_index = 1
        /\ unified_timeline[i + 1].timestamp - unified_timeline[i].timestamp < 50

\* C39: in dedicated capture a touch-up that closes an open touch appends to the
\* timeline either exactly one tap (total displacement below 5 px) or exactly one
\* start marker, at least one swipe segment and one end marker (5 px or more),
\* and clears current_swipe, so the branch for too few sample points is never
\* taken; a touch-up with no open touch, as after a touch-down ignored because X
\* or Y was unknown, appends nothing.
C39_TouchUpAppendsTapOrSwipe ==
    [][/\ (TouchUpRead /\ dedicated_touch.is_touching)
            => LET added == AddedEntries
                   n == Len(added)
                   total2 == Distance2(<<current_swipe[1].start_x, current_swipe[1].start_y>>,
                                       TouchUpPoint)
               IN  /\ current_swipe # <<>>
                   /\ current_swipe' = <<>>
                   /\ ~dedicated_touch'.is_touching
                   /\ SubSeq(unified_timeline', 1, Len(unified_timeline)) = unified_timeline
                   /\ IF total2 < 5 * 5
                      THEN n = 1 /\ added[1].type = "click"
                      ELSE /\ n >= 3
                           /\ added[1].type = "comment"
                           /\ added[n].type = "comment"
                           /\ \A i \in 2..(n - 1) : added[i].type = "swipe"
       /\ (TouchUpRead /\ ~dedicated_touch.is_touching)
            => /\ unified_timeline' = unified_timeline
               /\ current_swipe' = current_swipe
       /\ unified_timeline' # unified_timeline => TouchUpRead]_vars

\* a swipe of one segment and a tap are both on the timeline, and no touch is
\* open
C39_Witness ==
    /\ \E i \in 1..Len(unified_timeline) : unified_timeline[i].type = "click"
    /\ \E i \in 1..Len(unified_timeline) :
          unified_timeline[i].type = "swipe" /\ unified_timeline[i].total_segments = 1
    /\ current_swipe = <<>>

\* ------------------------------------------------------ the unified command runner

\* int(text) on the characters a command can hold here: an optional sign and one
\* or more decimal digits; <<>> stands for ValueError
RECURSIVE PyIntBase10(_)
PyIntBase10(text) ==
    LET signed == text # <<>> /\ text[1] \in {"+", "-"}
        digits == IF signed THEN Tail(text) ELSE text
        n      == Len(digits)
    IN  IF n = 0 \/ \E i \in 1..n : digits[i] \notin {"0", "1", "2", "3", "4", "5", "6", "7", "8", "9"}
        THEN <<>>
        ELSE IF signed
        THEN <<(IF text[1] = "-" THEN -1 ELSE 1) * PyIntBase10(digits)[1]>>
        ELSE IF n = 1
        THEN <<DigitValue(digits[1])>>
        ELSE <<PyIntBase10(SubSeq(digits, 1, n - 1))[1] * 10 + DigitValue(digits[n])>>

\* a mutant of delay_after: the first interval after a command stays
delay_after_first(action_plan, delay_value) ==
    IF action_plan # <<>> /\ action_plan[Len(action_plan)].delay_after = DEFAULT_INTERVAL
    THEN [action_plan EXCEPT ![Len(action_plan)].delay_after = delay_value]
    ELSE action_plan

\* "if action_plan: action_plan[-1]['delay_after'] = delay_value / 1000.0", the
\* interval kept in ms; an interval before the first command is ignored
delay_after(action_plan, delay_value) ==
    IF action_plan # <<>>
    THEN [action_plan EXCEPT ![Len(action_plan)].delay_after = delay_value]
    ELSE action_plan

\* the body of "for cmd in commands": the plan after one command of the input;
\* a command that is rejected ("continue") leaves the plan as it is
plan_command(action_plan, cmd) ==
    LET n         == Len(cmd)
        lower     == <<"a", "b", "c", "d", "e", "f", "g", "h", "i", "j", "k", "l", "m",
                       "n", "o", "p", "q", "r", "s", "t", "u", "v", "w", "x", "y", "z">>
        upper     == <<"A", "B", "C", "D", "E", "F", "G", "H", "I", "J", "K", "L", "M",
                       "N", "O", "P", "Q", "R", "S", "T", "U", "V", "W", "X", "Y", "Z">>
        \* cmd.upper() on ASCII text
        cmd_upper == [i \in 1..Len(cmd) |->
                         IF \E k \in 1..26 : lower[k] = cmd[i]
                         THEN upper[CHOOSE k \in 1..26 : lower[k] = cmd[i]]
                         ELSE cmd[i]]
        \* str.split(',')
        RECURSIVE SplitComma(_)
        SplitComma(text) ==
            LET at == Find(text, ",")
            IN  IF at = 0
                THEN <<text>>
                ELSE <<SubSeq(text, 1, at - 1)>>
                     \o SplitComma(SubSeq(text, at + 1, Len(text)))
        KEYMAP    == [direction \in {"W", "A", "S", "D", "J"} |->
                         CASE direction = "W" -> "51" [] direction = "A" -> "29"
                           [] direction = "S" -> "47" [] direction = "D" -> "32"
                           [] direction = "J" -> "38"]
        planned(type, params) ==
            Append(action_plan,
                   [type |-> type, params |-> params, delay_after |-> DEFAULT_INTERVAL])
    IN  IF n >= 2 /\ SubSeq(cmd_upper, n - 1, n) = <<"M", "S">>
        THEN \* cmd.lower().endswith('ms')
             LET delay_value == PyIntBase10(SubSeq(cmd, 1, n - 2))
             IN  IF delay_value = <<>> \/ delay_value[1] < 0
                 THEN action_plan
                 ELSE delay_after(action_plan, delay_value[1])
        ELSE IF n >= 6 /\ SubSeq(cmd_upper, 1, 6) = <<"S", "W", "I", "P", "E", ":">>
        THEN LET params == SplitComma(SubSeq(cmd, 7, n))
                 values == [i \in 1..Len(params) |-> PyIntBase10(params[i])]
             IN  IF Len(params) # 5 \/ \E i \in 1..Len(params) : values[i] = <<>>
                 THEN action_plan
                 ELSE planned("swipe", [i \in 1..5 |-> values[i][1]])
        ELSE IF Find(cmd, ",") # 0
        THEN LET coords == SplitComma(cmd)
                 x      == PyIntBase10(coords[1])
                 y      == PyIntBase10(coords[2])
             IN  IF Len(coords) # 2
                 THEN action_plan
                 ELSE IF x = <<>> \/ y = <<>>
                 THEN action_plan
                 ELSE IF x[1] < 0 \/ y[1] < 0
                 THEN action_plan
                 ELSE planned("tap", <<x[1], y[1]>>)
        ELSE IF n < 2
        THEN action_plan
        ELSE LET direction == cmd_upper[1]
                 count     == PyIntBase10(Tail(cmd_upper))
             IN  IF count = <<>>
                 THEN action_plan
                 ELSE IF direction \notin DOMAIN KEYMAP
                 THEN action_plan
                 ELSE IF count[1] <= 0
                 THEN action_plan
                 ELSE planned("move", <<KEYMAP[direction], count[1]>>)

\* "action_plan = []; for cmd in commands: ..."
RECURSIVE action_plan_of(_)
action_plan_of(commands) ==
    IF commands = <<>>
    THEN <<>>
    ELSE plan_command(action_plan_of(SubSeq(commands, 1, Len(commands) - 1)),
                      commands[Len(commands)])

\* "for i, action in enumerate(action_plan, 1)" from action i on: the call of
\* press_key_optimized, tap_screen or swipe_screen, "break" when it fails, and
\* the sleep of delay_after "if i < len(action_plan)"; action `failing` is the one
\* that fails, none when it is 0
RECURSIVE run_action_plan(_, _, _)
run_action_plan(action_plan, i, failing) ==
    IF i > Len(action_plan)
    THEN <<>>
    ELSE LET action  == action_plan[i]
             success == i # failing
             call    == Log(action.type, action.params, success)
         IN  IF ~success
             THEN <<call>>
             ELSE <<call>>
                  \o (IF i < Len(action_plan)
                      THEN <<Log("sleep", <<action.delay_after>>, TRUE)>>
                      ELSE <<>>)
                  \o run_action_plan(action_plan, i + 1, failing)

\* "commands = command_input.split()" of a line that is neither 'q' nor empty:
\* moves, a tap, a swipe, intervals, and commands that are rejected
InitUnified ==
    /\ current_touch = IdleTouch
    /\ recorded_commands = <<>>
    /\ event = NoEvent
    /\ pc = "unified"
    /\ first_signal_time = None
    /\ touch_device = TestDevice
    /\ ReplayIdle
    /\ InputIdle
    /\ \E n \in 1..MaxCommands :
          call_args \in [1..n ->
              {<<"W", "2">>, <<"d", "1">>, <<"X", "2">>, <<"1", ",", "2">>,
               <<"S", "W", "I", "P", "E", ":", "3", ",", "4", ",", "5", ",", "6", ",", "7">>,
               <<"3", "0", "0", "m", "s">>, <<"0", "M", "S">>, <<"-", "5", "m", "s">>}]
    /\ adb_log = <<>>
    /\ system = EmptySystem
    /\ result = <<>>
    /\ RecorderIdle

\* one pass of the loop of execute_unified_commands: the plan is built from the
\* commands and run; with no valid command nothing is run
execute_unified_commands ==
    /\ pc = "unified"
    /\ \E action_plan \in {action_plan_of(call_args)} :
       \E failing \in 0..Len(action_plan) :
          adb_log' = run_action_plan(action_plan, 1, failing)
    /\ pc' = "ran"
    /\ UNCHANGED <<captureVars, touch_device, replayVars, decodeVars, discoveryVars, call_args, system,
                   result, active_touches,
                   operation_sequence, dedicated_touch, current_swipe>>

SpecUnified == InitUnified /\ [][execute_unified_commands]_vars

\* ------------------------------------------------- properties of the command runner

\* the commands of the input that are valid actions
IsAction(cmd) ==
    cmd \in {<<"W", "2">>, <<"d", "1">>, <<"1", ",", "2">>,
             <<"S", "W", "I", "P", "E", ":", "3", ",", "4", ",", "5", ",", "6", ",", "7">>}

\* the interval of a non-negative 'Nms' command in ms, None for any other command
IntervalOf(cmd) ==
    CASE cmd = <<"3", "0", "0", "m", "s">> -> 300
      [] cmd = <<"0", "M", "S">> -> 0
      [] OTHER -> None

ActionPositions == {p \in 1..Len(call_args) : IsAction(call_args[p])}

\* the position in the input of valid action k, one past the end when there are
\* fewer than k
ActionPosition(k) ==
    IF \E p \in ActionPositions : Cardinality({q \in ActionPositions : q <= p}) = k
    THEN CHOOSE p \in ActionPositions : Cardinality({q \in ActionPositions : q <= p}) = k
    ELSE Len(call_args) + 1

\* the interval the input asks for after valid action k
AskedInterval(k) ==
    LET between == {j \in (ActionPosition(k) + 1)..(ActionPosition(k + 1) - 1) :
                       IntervalOf(call_args[j]) # None}
    IN  IF between = {}
        THEN DEFAULT_INTERVAL
        ELSE IntervalOf(call_args[CHOOSE j \in between : \A other \in between : other <= j])

Calls == SelectSeq(adb_log, LAMBDA entry : entry.kind # "sleep")

\* C40: the runner calls the valid actions of the input in order, skipping every
\* other command, and stops after the first call that fails; each call but the
\* last one made is followed by exactly one sleep, of the last non-negative 'Nms'
\* interval between that action and the next valid one or DEFAULT_INTERVAL when
\* there is none, and no sleep follows the last call
C40_SleepsTheAskedInterval ==
    pc = "ran" =>
        /\ Len(Calls) <= Cardinality(ActionPositions)
        /\ \A k \in 1..Len(Calls) :
              /\ adb_log[2 * k - 1] = Calls[k]
              /\ k < Len(Calls) =>
                    /\ Calls[k].ok
                    /\ adb_log[2 * k] = Log("sleep", <<AskedInterval(k)>>, TRUE)
        /\ Len(adb_log) = (IF Calls = <<>> THEN 0 ELSE 2 * Len(Calls) - 1)
        /\ (Calls # <<>> /\ Calls[Len(Calls)].ok) => Len(Calls) = Cardinality(ActionPositions)
        /\ Calls = <<>> => ActionPositions = {}

\* the input is an action, two intervals and an action: the first call is followed
\* by a sleep of the second interval, and the second call by none
C40_Witness ==
    /\ pc = "ran"
    /\ Len(call_args) = 4
    /\ IsAction(call_args[1])
    /\ IntervalOf(call_args[2]) = 300
    /\ IntervalOf(call_args[3]) = 0
    /\ IsAction(call_args[4])
    /\ Len(adb_log) = 3
    /\ adb_log[2] = Log("sleep", <<0>>, TRUE)
    /\ adb_log[3].ok

====
